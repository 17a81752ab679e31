--------------------------- MODULE DispatcherProofs ---------------------------
(***************************************************************************)
(* What holds of Dispatcher for any peers, reports and tasks.              *)
(***************************************************************************)
EXTENDS Dispatcher, SequenceTheorems, TLAPS

-------------------------------------------------------------------------------
\* A score is a natural number, and lower than that of a peer that does not answer.
LEMMA ScoreBound ==
  ASSUME NEW r \in Reports
  PROVE  Score(r) \in Nat /\ Score(r) < NoAnswer
<1>1. r.load1 \in Nat /\ r.cores \in Nat \ {0} /\ r.active \in Nat /\ 100 + 10 * r.active < NoAnswer
  BY DispatcherAssumption
<1>2. r.load1 \div r.cores \in Nat
  BY <1>1
<1>3. Percent(r) \in Nat /\ Percent(r) <= 100
  BY <1>2 DEF Percent
<1>4. QED
  BY <1>1, <1>3, DispatcherAssumption DEF Score

\* What is known of the best peer while the peers are queried, and after.
ToldTyped == DOMAIN told \subseteq Hosts /\ \A h \in DOMAIN told : told[h] \in Reports
BestKnown ==
  /\ best.score \in Nat
  /\ best.score < NoAnswer => best.host \in Peers /\ best.port = best.host
BestLeast ==
  step = "query" =>
    /\ left \subseteq Peers /\ DOMAIN told \subseteq Peers \ left
    /\ \A h \in DOMAIN told : best.score <= Score(told[h])
    /\ best.score < NoAnswer => best.host \in DOMAIN told /\ best.score = Score(told[best.host])
FallsBackToSelf == step = "fallback" => target = Self
RouteInv ==
  ToldTyped /\ BestKnown /\ BestLeast /\ PortKnown /\ LeastLoaded /\ FallsBackToSelf

\* A peer that answers leaves the best one known and least.
LEMMA AnsweredStep ==
  ASSUME RouteInv, NEW p \in Peers, Answered(p)
  PROVE  RouteInv'
<1>1. PICK r \in Reports : Told(p, r) /\ Better(p, Score(r), p)
  BY DEF Answered
<1>2. step = "query" /\ step' = "query" /\ p \in left /\ left' = left \ {p}
  BY DEF Answered
<1>3. /\ DOMAIN told' = DOMAIN told \cup {p} /\ told'[p] = r
      /\ \A h \in DOMAIN told \ {p} : told'[h] = told[h]
  BY <1>1 DEF Told
<1>4. /\ p \notin DOMAIN told /\ left \subseteq Peers /\ DOMAIN told \subseteq Peers \ left
      /\ \A h \in DOMAIN told : best.score <= Score(told[h])
      /\ best.score < NoAnswer => best.host \in DOMAIN told /\ best.score = Score(told[best.host])
  BY <1>2 DEF RouteInv, BestLeast
<1>5. Score(r) \in Nat /\ Score(r) < NoAnswer /\ best.score \in Nat
  BY ScoreBound DEF RouteInv, BestKnown
<1>6. \/ Score(r) < best.score /\ best' = [score |-> Score(r), host |-> p, port |-> p]
      \/ ~ (Score(r) < best.score) /\ best' = best
  BY <1>1 DEF Better
<1>7. ToldTyped'
  BY <1>3 DEF RouteInv, ToldTyped, Hosts
<1>8. BestKnown'
  BY <1>5, <1>6 DEF RouteInv, BestKnown
<1>9. \A h \in DOMAIN told : Score(told[h]) \in Nat /\ told'[h] = told[h]
  BY <1>3, <1>4, ScoreBound DEF RouteInv, ToldTyped
<1>10. BestLeast'
  <2>1. left' \subseteq Peers /\ DOMAIN told' \subseteq Peers \ left'
    BY <1>2, <1>3, <1>4
  <2>2. \A h \in DOMAIN told' : best'.score <= Score(told'[h])
    BY <1>3, <1>4, <1>5, <1>6, <1>9
  <2>3. best'.score < NoAnswer =>
          best'.host \in DOMAIN told' /\ best'.score = Score(told'[best'.host])
    BY <1>3, <1>4, <1>5, <1>6, <1>9
  <2>4. QED
    BY <2>1, <2>2, <2>3 DEF BestLeast
<1>11. PortKnown' /\ LeastLoaded' /\ FallsBackToSelf'
  BY <1>2 DEF PortKnown, Routed, LeastLoaded, FallsBackToSelf
<1>12. QED
  BY <1>7, <1>8, <1>10, <1>11 DEF RouteInv

\* A peer that does not answer may leave an uninitialised port, but only with a score
\* that no answer has.
LEMMA UnansweredStep ==
  ASSUME RouteInv, NEW p \in Peers, Unanswered(p)
  PROVE  RouteInv'
<1>1. PICK port \in Hosts \cup {Garbage} : Better(p, NoAnswer, port)
  BY DEF Unanswered
<1>2. /\ step = "query" /\ step' = "query" /\ p \in left /\ left' = left \ {p}
      /\ told' = told
  BY DEF Unanswered
<1>3. \/ NoAnswer < best.score /\ best' = [score |-> NoAnswer, host |-> p, port |-> port]
      \/ ~ (NoAnswer < best.score) /\ best' = best
  BY <1>1 DEF Better
<1>4. ToldTyped'
  BY <1>2 DEF RouteInv, ToldTyped
<1>5. BestKnown'
  BY <1>3, DispatcherAssumption DEF RouteInv, BestKnown
<1>6. BestLeast'
  <2>1. \A h \in DOMAIN told : Score(told[h]) \in Nat /\ best.score <= Score(told[h])
    BY <1>2, ScoreBound DEF RouteInv, BestLeast, ToldTyped
  <2>2. best.score \in Nat /\ NoAnswer \in Nat
    BY DispatcherAssumption DEF RouteInv, BestKnown
  <2>3. \A h \in DOMAIN told : best'.score <= Score(told[h])
    BY <1>3, <2>1, <2>2
  <2>4. best'.score < NoAnswer => best' = best
    BY <1>3, <2>2
  <2>5. QED
    BY <1>2, <2>3, <2>4 DEF RouteInv, BestLeast
<1>7. PortKnown' /\ LeastLoaded' /\ FallsBackToSelf'
  BY <1>2 DEF PortKnown, Routed, LeastLoaded, FallsBackToSelf
<1>8. QED
  BY <1>4, <1>5, <1>6, <1>7 DEF RouteInv

\* The node takes the task itself unless a peer that answered has a lower score.
LEMMA ChooseStep ==
  ASSUME RouteInv, Choose
  PROVE  RouteInv'
<1>1. PICK own \in Reports :
        Told(Self, own) /\ target' = IF UsesSelf(own) THEN Self ELSE best.host
  BY DEF Choose
<1>2. step = "query" /\ step' = "connect" /\ best' = best /\ left' = left
  BY DEF Choose
<1>3. /\ \A h \in DOMAIN told : best.score <= Score(told[h]) /\ Score(told[h]) \in Nat
      /\ best.score < NoAnswer => best.host \in DOMAIN told /\ best.score = Score(told[best.host])
      /\ Self \notin DOMAIN told
  BY <1>2, ScoreBound, DispatcherAssumption DEF RouteInv, BestLeast, ToldTyped
<1>4. /\ DOMAIN told' = DOMAIN told \cup {Self} /\ told'[Self] = own
      /\ \A h \in DOMAIN told : told'[h] = told[h]
  BY <1>1, <1>3 DEF Told
<1>5. best.score \in Nat /\ Score(own) \in Nat /\ Score(own) < NoAnswer /\ NoAnswer \in Nat
  BY ScoreBound, DispatcherAssumption DEF RouteInv, BestKnown
<1>6. ToldTyped' /\ BestKnown' /\ BestLeast' /\ FallsBackToSelf'
  BY <1>2, <1>4 DEF RouteInv, ToldTyped, BestKnown, BestLeast, FallsBackToSelf, Hosts
<1>7. CASE UsesSelf(own)
  <2>1. target' = Self /\ Score(own) <= best.score
    BY <1>1, <1>7 DEF UsesSelf
  <2>2. \A h \in DOMAIN told' : Score(told'[Self]) <= Score(told'[h])
    BY <1>3, <1>4, <1>5, <2>1
  <2>3. QED
    BY <1>2, <1>4, <1>6, <2>1, <2>2 DEF RouteInv, PortKnown, LeastLoaded
<1>8. CASE ~ UsesSelf(own)
  <2>1. target' = best.host /\ best.score < Score(own)
    BY <1>1, <1>5, <1>8 DEF UsesSelf
  <2>2. best.score < NoAnswer
    BY <1>5, <2>1
  <2>3. best.port = best.host /\ best.host \in DOMAIN told /\ best.score = Score(told[best.host])
    BY <1>3, <2>2 DEF RouteInv, BestKnown
  <2>4. \A h \in DOMAIN told' : Score(told'[best.host]) <= Score(told'[h])
    BY <1>3, <1>4, <1>5, <2>1, <2>3
  <2>5. QED
    BY <1>2, <1>4, <1>6, <2>1, <2>3, <2>4 DEF RouteInv, PortKnown, LeastLoaded
<1>9. QED
  BY <1>7, <1>8

\* One step keeps what is known of the choice.
LEMMA RouteStep ==
  ASSUME RouteInv, [Next]_vars
  PROVE  RouteInv'
<1> USE DEF RouteInv, ToldTyped, BestKnown, BestLeast, PortKnown, LeastLoaded,
            FallsBackToSelf, Routed, choice
<1>1. ASSUME NEW t \in Tasks, Submit(t) PROVE RouteInv'
  BY <1>1, DispatcherAssumption DEF Submit, Goto, NoBest
<1>2. ASSUME NEW t \in Tasks, Serve(t) \/ HangUp(t) PROVE RouteInv'
  BY <1>2 DEF Serve, HangUp
<1>3. ASSUME NEW p \in Peers, Query(p) PROVE RouteInv'
  BY <1>3, AnsweredStep, UnansweredStep DEF Query
<1>4. CASE Choose
  BY <1>4, ChooseStep
<1>5. CASE Connect
  BY <1>5 DEF Connect, Goto, Return
<1>6. CASE Fallback
  BY <1>6 DEF Fallback, Goto, Return
<1>7. CASE SendTask
  BY <1>7 DEF SendTask, Goto, Return
<1>8. CASE Read
  BY <1>8 DEF Read, ReadOutput, ReadDone, Return
<1>9. CASE ReadFails
  BY <1>9 DEF ReadFails, Return
<1>10. CASE Finished \/ UNCHANGED vars
  BY <1>10 DEF Finished, vars
<1>11. QED
  BY <1>1, <1>2, <1>3, <1>4, <1>5, <1>6, <1>7, <1>8, <1>9, <1>10 DEF Next

\* The best_port dispatch() connects to was announced by the peer, though it is left
\* uninitialised for peers that do not answer.
THEOREM PortAlwaysKnown == Spec => []PortKnown
<1>1. Init => RouteInv
  BY DispatcherAssumption
     DEF Init, NoBest, RouteInv, ToldTyped, BestKnown, BestLeast, PortKnown, LeastLoaded,
         FallsBackToSelf, Routed
<1>2. RouteInv => PortKnown
  BY DEF RouteInv
<1>3. QED
  BY <1>1, <1>2, RouteStep, PTL DEF Spec

\* dispatch() chooses the lowest score among the peers that answered and the node itself.
THEOREM LeastAlwaysChosen == Spec => []LeastLoaded
<1>1. Init => RouteInv
  BY DispatcherAssumption
     DEF Init, NoBest, RouteInv, ToldTyped, BestKnown, BestLeast, PortKnown, LeastLoaded,
         FallsBackToSelf, Routed
<1>2. RouteInv => LeastLoaded
  BY DEF RouteInv
<1>3. QED
  BY <1>1, <1>2, RouteStep, PTL DEF Spec
-------------------------------------------------------------------------------
\* A task has not been sent before dispatch() has returned or reads the answer, and has
\* been sent once, or never, after that.
OneHost(t) == \E h \in Hosts : sentTo[t] = <<h>>
Unsent(t) == rc[t] = Pending /\ (t = task => step # "receive")
SentTyped ==
  /\ sentTo \in [Tasks -> Seq(Hosts)]
  /\ rc \in [Tasks -> Codes \cup {Pending, Failed}]
SentOnce ==
  /\ SentTyped
  /\ step = "query" => best.host \in Hosts \/ best.score = Worst
  /\ step \in {"connect", "fallback", "send"} => target \in Hosts
  /\ step # "idle" => task \in Tasks /\ rc[task] = Pending
  /\ \A t \in Tasks : sentTo[t] = <<>> \/ OneHost(t)
  /\ \A t \in Tasks : Unsent(t) => sentTo[t] = <<>>

\* dispatch() sends only what it has not sent, and a task it has returned for does not
\* come back.
LEMMA SentStep ==
  ASSUME RouteInv, SentOnce, [Next]_vars
  PROVE  SentOnce'
<1> USE DEF SentOnce, SentTyped, OneHost, Unsent, choice, results, Goto
<1>1. ASSUME NEW t \in Tasks, Submit(t) PROVE SentOnce'
  BY <1>1 DEF Submit, NoBest
<1>2. ASSUME NEW t \in Tasks, Serve(t) \/ HangUp(t) PROVE SentOnce'
  BY <1>2 DEF Serve, HangUp
<1>3. ASSUME NEW p \in Peers, Query(p) PROVE SentOnce'
  <2>1. best' = best \/ best'.host = p
    BY <1>3 DEF Query, Answered, Unanswered, Better
  <2>2. p \in Hosts
    BY DEF Hosts
  <2>3. QED
    BY <1>3, <2>1, <2>2 DEF Query, Answered, Unanswered
<1>4. CASE Choose
  <2>1. PICK own \in Reports : target' = IF UsesSelf(own) THEN Self ELSE best.host
    BY <1>4 DEF Choose
  <2>2. Score(own) <= Worst
    BY ScoreBound, DispatcherAssumption
  <2>3. best.host \in Hosts \/ best.score = Worst
    BY <1>4 DEF Choose
  <2>4. target' \in Hosts
    BY <2>1, <2>2, <2>3 DEF UsesSelf, Hosts
  <2>5. QED
    BY <1>4, <2>4 DEF Choose
<1>5. CASE Connect
  BY <1>5, DispatcherAssumption DEF Connect, Return, Hosts, Pending, Failed
<1>6. CASE Fallback
  BY <1>6, DispatcherAssumption DEF Fallback, Return, Pending, Failed
<1>7. CASE SendTask
  <2>1. task \in Tasks /\ sentTo[task] = <<>> /\ target \in Hosts
    BY <1>7 DEF SendTask
  <2>2. CASE step' = "receive" /\ sentTo' = [sentTo EXCEPT ![task] = Append(@, target)]
    <3>1. sentTo'[task] = <<target>> /\ \A t \in Tasks \ {task} : sentTo'[t] = sentTo[t]
      BY <2>1, <2>2
    <3>2. UNCHANGED <<task, rc>> /\ step = "send"
      BY <1>7, <2>2 DEF SendTask, Return
    <3>3. QED
      BY <1>7, <2>1, <2>2, <3>1, <3>2 DEF SendTask
  <2>3. CASE step = "send" /\ Return(Failed) /\ UNCHANGED sentTo
    BY <2>1, <2>3 DEF Return, Pending, Failed
  <2>4. QED
    BY <1>7, <2>2, <2>3 DEF SendTask
<1>8. CASE Read
  <2>1. CASE ReadOutput
    BY <2>1 DEF ReadOutput
  <2>2. CASE ReadDone
    <3>1. Message.code \in Codes /\ Message.code # Pending
      BY <2>2, DispatcherAssumption DEF ReadDone, DoneMsg, Pending
    <3>2. QED
      BY <2>2, <3>1 DEF ReadDone, Return
  <2>3. QED
    BY <1>8, <2>1, <2>2 DEF Read
<1>9. CASE ReadFails
  BY <1>9 DEF ReadFails, Return, Pending, Failed
<1>10. CASE Finished \/ UNCHANGED vars
  BY <1>10 DEF Finished, vars
<1>11. QED
  BY <1>1, <1>2, <1>3, <1>4, <1>5, <1>6, <1>7, <1>8, <1>9, <1>10 DEF Next

\* No task is sent twice, to whichever node, whatever fails: dispatch() falls back to its
\* own worker only before anything was sent.
THEOREM SentAtMostOnce == Spec => []AtMostOnce
<1>1. Init => RouteInv /\ SentOnce
  BY DispatcherAssumption
     DEF Init, NoBest, RouteInv, ToldTyped, BestKnown, BestLeast, PortKnown, LeastLoaded,
         FallsBackToSelf, Routed, SentOnce, SentTyped, OneHost, Unsent
<1>2. SentOnce => AtMostOnce
  <2>1. ASSUME NEW t \in Tasks, SentOnce PROVE Len(sentTo[t]) <= 1
    <3>1. CASE sentTo[t] = <<>>
      BY <3>1
    <3>2. CASE OneHost(t)
      <4>1. PICK h \in Hosts : sentTo[t] = <<h>>
        BY <3>2 DEF OneHost
      <4>2. QED
        BY <4>1
    <3>3. QED
      BY <2>1, <3>1, <3>2 DEF SentOnce
  <2>2. QED
    BY <2>1 DEF AtMostOnce
<1>3. QED
  BY <1>1, <1>2, RouteStep, SentStep, PTL DEF Spec
-------------------------------------------------------------------------------
\* Every call returns Pending to no one: while dispatch() is at work it has a task.
LEMMA Codes255 == Pending \notin Codes /\ Failed \notin Codes /\ Pending # Failed
BY DispatcherAssumption DEF Pending, Failed

\* Output and verdicts are told apart by their type.
LEMMA Kinds ==
  /\ \A m \in OutputMsg : ~ IsDone(m) /\ m \notin DoneMsg
  /\ \A m \in DoneMsg : IsDone(m) /\ m.code \in Codes
  /\ \A m \in OutputMsg \cup DoneMsg : IsDone(m) <=> m \in DoneMsg
BY DEF OutputMsg, DoneMsg, IsDone

\* What the worker does to a connection.
LEMMA Served ==
  ASSUME TypeOK, NEW t \in Tasks, Serve(t)
  PROVE  /\ t = task /\ sentTo[t] # <<>>
         /\ \A i \in DOMAIN stream[t] : stream[t][i] \notin DoneMsg
         /\ \E m \in OutputMsg \cup DoneMsg : stream' = [stream EXCEPT ![t] = Append(@, m)]
         /\ UNCHANGED <<closed, step, task, choice, results>>
<1>1. CASE Worker!Compiler(t)
  BY <1>1 DEF Serve, Worker!Compiler, Worker!Deliver, Worker!Delivered
<1>2. CASE Worker!Program(t)
  BY <1>2 DEF Serve, Worker!Program, Worker!Deliver, Worker!Delivered
<1>3. CASE Worker!Answer(t)
  BY <1>3 DEF Serve, Worker!Answer, Worker!Deliver, Worker!Delivered
<1>4. t = task /\ sentTo[t] # <<>> /\ UNCHANGED <<step, task, choice, results>>
  BY DEF Serve
<1>5. QED
  BY <1>1, <1>2, <1>3, <1>4 DEF Serve

\* Closing a connection changes nothing else.
LEMMA HungUp ==
  ASSUME TypeOK, NEW t \in Tasks, HangUp(t)
  PROVE  /\ closed' = [closed EXCEPT ![t] = TRUE]
         /\ UNCHANGED <<stream, step, task, choice, results>>
BY DEF HangUp, Worker!Close

\* One step keeps the types.
LEMMA TypeStep ==
  ASSUME TypeOK, SentOnce, [Next]_vars
  PROVE  TypeOK'
<1> USE DispatcherAssumption DEF choice, conn, results, Goto
<1>1. ASSUME NEW t \in Tasks, Submit(t) PROVE TypeOK'
  <2>1. NoBest \in Best
    BY DEF NoBest, Best
  <2>2. QED
    BY <1>1, <2>1 DEF Submit, TypeOK
<1>2. ASSUME NEW t \in Tasks, Serve(t) PROVE TypeOK'
  <2>1. PICK m \in OutputMsg \cup DoneMsg : stream' = [stream EXCEPT ![t] = Append(@, m)]
    BY <1>2, Served
  <2>2. UNCHANGED <<closed, step, task, choice, results>>
    BY <1>2, Served
  <2>3. /\ Append(stream[t], m) \in Seq(OutputMsg \cup DoneMsg)
        /\ Len(Append(stream[t], m)) = Len(stream[t]) + 1
    BY <2>1 DEF TypeOK
  <2>4. /\ stream' \in [Tasks -> Seq(OutputMsg \cup DoneMsg)]
        /\ \A x \in Tasks : got[x] <= Len(stream'[x])
    BY <2>1, <2>3 DEF TypeOK
  <2>5. QED
    BY <2>2, <2>4 DEF TypeOK
<1>3. ASSUME NEW t \in Tasks, HangUp(t) PROVE TypeOK'
  <2>1. /\ closed' = [closed EXCEPT ![t] = TRUE]
        /\ UNCHANGED <<stream, step, task, choice, results>>
    BY <1>3, HungUp
  <2>2. closed' \in [Tasks -> BOOLEAN]
    BY <2>1 DEF TypeOK
  <2>3. QED
    BY <2>1, <2>2 DEF TypeOK
<1>4. ASSUME NEW p \in Peers, Answered(p) PROVE TypeOK'
  <2>1. PICK r \in Reports : Told(p, r) /\ Better(p, Score(r), p)
    BY <1>4 DEF Answered
  <2>2. best' \in Best
    BY <2>1, ScoreBound DEF Better, Best, TypeOK, Hosts
  <2>3. DOMAIN told' \subseteq Hosts /\ \A h \in DOMAIN told' : told'[h] \in Reports
    BY <2>1 DEF Told, TypeOK, Hosts
  <2>4. QED
    BY <1>4, <2>2, <2>3 DEF Answered, TypeOK
<1>5. ASSUME NEW p \in Peers, Unanswered(p) PROVE TypeOK'
  <2>1. PICK port \in Hosts \cup {Garbage} : Better(p, NoAnswer, port)
    BY <1>5 DEF Unanswered
  <2>2. best' \in Best
    BY <2>1 DEF Better, Best, TypeOK
  <2>3. QED
    BY <1>5, <2>2 DEF Unanswered, TypeOK
<1>6. CASE Choose
  <2>1. PICK own \in Reports :
          Told(Self, own) /\ target' = IF UsesSelf(own) THEN Self ELSE best.host
    BY <1>6 DEF Choose
  <2>2. target' \in Hosts \cup {Nobody}
    BY <2>1 DEF TypeOK, Best, Hosts
  <2>3. DOMAIN told' \subseteq Hosts /\ \A h \in DOMAIN told' : told'[h] \in Reports
    BY <2>1 DEF Told, TypeOK, Hosts
  <2>4. QED
    BY <1>6, <2>2, <2>3 DEF Choose, TypeOK
<1>7. CASE Connect
  <2>1. rc' = rc \/ rc' = [rc EXCEPT ![task] = Failed]
    BY <1>7 DEF Connect, Return
  <2>2. /\ step' \in {"send", "fallback", "idle"} /\ task' \in {task, Nobody}
        /\ target' \in {target, Self} /\ told' = <<>>
        /\ UNCHANGED <<left, best, conn, sentTo, got, shown>>
    BY <1>7 DEF Connect, Return
  <2>3. rc' \in [Tasks -> Codes \cup {Pending, Failed}]
    BY <2>1 DEF TypeOK
  <2>4. Self \in Hosts /\ DOMAIN <<>> = {}
    BY DEF Hosts
  <2>5. QED
    BY <2>2, <2>3, <2>4 DEF TypeOK
<1>8. CASE Fallback
  BY <1>8 DEF Fallback, Return, TypeOK
<1>9. CASE SendTask
  <2>1. target \in Hosts
    BY <1>9 DEF SendTask, SentOnce
  <2>2. sentTo' \in [Tasks -> Seq(Hosts)]
    <3>1. task \in Tasks /\ Append(sentTo[task], target) \in Seq(Hosts)
      BY <1>9, <2>1 DEF SendTask, SentOnce, TypeOK
    <3>2. \/ sentTo' = sentTo
          \/ sentTo' = [sentTo EXCEPT ![task] = Append(sentTo[task], target)]
      BY <1>9 DEF SendTask
    <3>3. sentTo \in [Tasks -> Seq(Hosts)]
      BY DEF TypeOK
    <3>4. QED
      BY <3>1, <3>2, <3>3
  <2>3. QED
    BY <1>9, <2>2 DEF SendTask, Return, TypeOK
<1>10. CASE ReadOutput
  <2>1. task \in Tasks /\ got[task] < Len(stream[task]) /\ Message \in OutputMsg
    BY <1>10 DEF ReadOutput, SentOnce
  <2>2. got' \in [Tasks -> Nat] /\ \A t \in Tasks : got'[t] <= Len(stream[t])
    BY <1>10, <2>1 DEF ReadOutput, TypeOK
  <2>3. shown' \in [Tasks -> Seq(OutputMsg)]
    BY <1>10, <2>1 DEF ReadOutput, TypeOK
  <2>4. QED
    BY <1>10, <2>2, <2>3 DEF ReadOutput, TypeOK
<1>11. CASE ReadDone
  <2>1. task \in Tasks /\ got[task] < Len(stream[task]) /\ Message.code \in Codes
    BY <1>11, Kinds DEF ReadDone, SentOnce
  <2>2. got' \in [Tasks -> Nat] /\ \A t \in Tasks : got'[t] <= Len(stream[t])
    BY <1>11, <2>1 DEF ReadDone, TypeOK
  <2>3. rc' \in [Tasks -> Codes \cup {Pending, Failed}]
    BY <1>11, <2>1 DEF ReadDone, Return, TypeOK
  <2>4. QED
    BY <1>11, <2>2, <2>3 DEF ReadDone, Return, TypeOK
<1>12. CASE ReadFails
  BY <1>12 DEF ReadFails, Return, TypeOK
<1>13. CASE Finished \/ UNCHANGED vars
  BY <1>13 DEF Finished, vars, TypeOK
<1>14. QED
  BY <1>1, <1>2, <1>3, <1>4, <1>5, <1>6, <1>7, <1>8, <1>9, <1>10, <1>11, <1>12, <1>13
  DEF Next, Query, Read

\* Init satisfies what the steps keep.
LEMMA InitHolds == Init => TypeOK /\ RouteInv /\ SentOnce
<1> SUFFICES ASSUME Init PROVE TypeOK /\ RouteInv /\ SentOnce
  OBVIOUS
<1> USE DispatcherAssumption
<1>1. TypeOK
  BY DEF Init, Worker!Init, NoBest, TypeOK, Best
<1>2. RouteInv
  BY DEF Init, NoBest, RouteInv, ToldTyped, BestKnown, BestLeast, PortKnown, LeastLoaded,
         FallsBackToSelf, Routed
<1>3. SentOnce
  BY DEF Init, NoBest, SentOnce, SentTyped, OneHost, Unsent
<1>4. QED
  BY <1>1, <1>2, <1>3

\* Every variable keeps its type; no read goes beyond what the worker has sent.
THEOREM TypeCorrect == Spec => []TypeOK
<1>1. TypeOK /\ RouteInv /\ SentOnce /\ [Next]_vars => (TypeOK /\ RouteInv /\ SentOnce)'
  BY TypeStep, RouteStep, SentStep
<1>2. QED
  BY <1>1, InitHolds, PTL DEF Spec
-------------------------------------------------------------------------------
\* The worker's verdict is the last message of a connection; while dispatch() has not
\* returned for a task, it has shown all it has read; between two calls it has none.
DoneIsLast(t) == \A i \in DOMAIN stream[t] : stream[t][i] \in DoneMsg => i = Len(stream[t])
ShowsRead(t) == rc[t] = Pending => shown[t] = SubSeq(stream[t], 1, got[t])
VerdictInv ==
  /\ step = "idle" => task = Nobody
  /\ \A t \in Tasks : DoneIsLast(t) /\ ShowsRead(t)
  /\ ReturnsVerdict

\* A prefix grows by the message after it, and is what it was when messages are added.
LEMMA Prefixes ==
  ASSUME NEW S, NEW s \in Seq(S), NEW n \in Nat, n <= Len(s)
  PROVE  /\ n < Len(s) => SubSeq(s, 1, n + 1) = Append(SubSeq(s, 1, n), s[n + 1])
         /\ \A m \in S : SubSeq(Append(s, m), 1, n) = SubSeq(s, 1, n)
<1>1. /\ SubSeq(s, 1, n) \in Seq(S) /\ Len(SubSeq(s, 1, n)) = n
      /\ \A i \in 1 .. n : SubSeq(s, 1, n)[i] = s[i]
  BY SubSeqProperties
<1>2. ASSUME n < Len(s) PROVE SubSeq(s, 1, n + 1) = Append(SubSeq(s, 1, n), s[n + 1])
  <2> DEFINE q == SubSeq(s, 1, n + 1)
             r == SubSeq(s, 1, n)
  <2>1. /\ q \in Seq(S) /\ Len(q) = n + 1 /\ s[n + 1] \in S
        /\ \A i \in 1 .. n + 1 : q[i] = s[i]
    BY <1>2, SubSeqProperties
  <2>2. r \in Seq(S) /\ Len(r) = n /\ \A i \in 1 .. n : r[i] = s[i]
    BY <1>1
  <2> HIDE DEF q, r
  <2>3. /\ Append(r, s[n + 1]) \in Seq(S) /\ Len(Append(r, s[n + 1])) = n + 1
        /\ \A i \in 1 .. n + 1 : Append(r, s[n + 1])[i] = s[i]
    BY <2>1, <2>2
  <2>4. q = Append(r, s[n + 1])
    BY <2>1, <2>3, SeqEqual
  <2>5. QED
    BY <2>4 DEF q, r
<1>3. ASSUME NEW m \in S PROVE SubSeq(Append(s, m), 1, n) = SubSeq(s, 1, n)
  <2> DEFINE q == Append(s, m)
  <2>1. q \in Seq(S) /\ Len(q) = Len(s) + 1 /\ \A i \in 1 .. n : q[i] = s[i]
    OBVIOUS
  <2> HIDE DEF q
  <2>2. /\ SubSeq(q, 1, n) \in Seq(S) /\ Len(SubSeq(q, 1, n)) = n
        /\ \A i \in 1 .. n : SubSeq(q, 1, n)[i] = s[i]
    BY <2>1, SubSeqProperties
  <2>3. SubSeq(q, 1, n) = SubSeq(s, 1, n)
    BY <1>1, <2>2, SeqEqual
  <2>4. QED
    BY <2>3 DEF q
<1>4. QED
  BY <1>2, <1>3

\* One step of a call, of the worker, or between two calls keeps the verdicts returned.
LEMMA VerdictStep ==
  ASSUME TypeOK, TypeOK', SentOnce, VerdictInv, [Next]_vars
  PROVE  VerdictInv'
<1> USE DEF choice, conn, results, Goto
<1> DEFINE Msgs == OutputMsg \cup DoneMsg
           Returned(t) == rc[t] \in Codes =>
             /\ stream[t] # <<>> /\ IsDone(stream[t][Len(stream[t])])
             /\ rc[t] = stream[t][Len(stream[t])].code
             /\ shown[t] = SubSeq(stream[t], 1, Len(stream[t]) - 1)
           Good(t) == DoneIsLast(t) /\ ShowsRead(t) /\ Returned(t)
<1>1. /\ step = "idle" => task = Nobody
      /\ step # "idle" => task \in Tasks /\ rc[task] = Pending
      /\ \A t \in Tasks : Good(t)
  BY DEF VerdictInv, ReturnsVerdict, SentOnce
<1>2. SUFFICES (step' = "idle" => task' = Nobody) /\ \A t \in Tasks : Good(t)'
  BY DEF VerdictInv, ReturnsVerdict
<1>3. CASE UNCHANGED <<stream, got, shown, rc>>
  <2>1. \A t \in Tasks : Good(t)'
    BY <1>1, <1>3 DEF DoneIsLast, ShowsRead
  <2>2. step' = "idle" => task' = Nobody
    <3>1. ASSUME NEW t \in Tasks, Serve(t) PROVE UNCHANGED <<step, task>>
      BY <3>1, Served
    <3>2. ASSUME NEW t \in Tasks, HangUp(t) PROVE UNCHANGED <<step, task>>
      BY <3>2, HungUp
    <3>3. QED
      BY <1>1, <1>3, <3>1, <3>2
      DEF Next, Query, Read, Submit, Answered, Unanswered, Choose, Connect, Fallback, SendTask,
          ReadOutput, ReadDone, ReadFails, Return, Finished, vars
  <2>3. QED
    BY <2>1, <2>2
<1>4. ASSUME NEW t \in Tasks, Serve(t)
      PROVE  (step' = "idle" => task' = Nobody) /\ \A x \in Tasks : Good(x)'
  <2>1. PICK m \in Msgs : stream' = [stream EXCEPT ![t] = Append(@, m)]
    BY <1>4, Served
  <2>2. /\ t = task /\ \A i \in DOMAIN stream[t] : stream[t][i] \notin DoneMsg
        /\ UNCHANGED <<step, task, got, shown, rc>>
    BY <1>4, Served
  <2>3. rc[t] = Pending
    BY <1>1, <2>2, DispatcherAssumption
  <2>4. ASSUME NEW x \in Tasks \ {t} PROVE Good(x)'
    BY <1>1, <2>1, <2>2, <2>4 DEF DoneIsLast, ShowsRead, TypeOK
  <2>5. /\ stream'[t] = Append(stream[t], m) /\ stream[t] \in Seq(Msgs)
        /\ got[t] \in Nat /\ got[t] <= Len(stream[t])
    BY <2>1 DEF TypeOK
  <2>6. DoneIsLast(t)'
    <3>1. /\ DOMAIN stream'[t] = 1 .. Len(stream[t]) + 1 /\ Len(stream'[t]) = Len(stream[t]) + 1
          /\ Len(stream[t]) \in Nat /\ DOMAIN stream[t] = 1 .. Len(stream[t])
          /\ \A i \in 1 .. Len(stream[t]) : stream'[t][i] = stream[t][i]
      BY <2>5
    <3>2. QED
      BY <2>2, <3>1 DEF DoneIsLast
  <2>7. ShowsRead(t)'
    <3>1. SubSeq(Append(stream[t], m), 1, got[t]) = SubSeq(stream[t], 1, got[t])
      BY <2>5, Prefixes
    <3>2. QED
      BY <1>1, <2>2, <2>5, <3>1 DEF ShowsRead
  <2>8. Returned(t)'
    BY <2>2, <2>3, Codes255
  <2>9. QED
    BY <1>1, <2>2, <2>4, <2>6, <2>7, <2>8
<1>5. CASE ReadOutput
  <2> PICK t \in Tasks : t = task
    BY <1>1, <1>5 DEF ReadOutput
  <2> DEFINE n == got[t]
             s == stream[t]
  <2>1. /\ rc[t] = Pending /\ n < Len(s) /\ got' = [got EXCEPT ![t] = n + 1]
        /\ shown' = [shown EXCEPT ![t] = Append(shown[t], s[n + 1])]
        /\ step' = "receive" /\ UNCHANGED <<task, stream, rc>>
    BY <1>1, <1>5 DEF ReadOutput, Message
  <2>2. ASSUME NEW x \in Tasks \ {t} PROVE Good(x)'
    <3>1. UNCHANGED <<stream[x], got[x], shown[x], rc[x]>>
      BY <2>1, <2>2 DEF TypeOK
    <3>2. QED
      BY <1>1, <3>1 DEF DoneIsLast, ShowsRead
  <2>3. /\ got'[t] = n + 1 /\ shown[t] = SubSeq(s, 1, n)
        /\ shown'[t] = Append(shown[t], s[n + 1])
    BY <1>1, <2>1 DEF TypeOK, ShowsRead
  <2>4. s \in Seq(Msgs) /\ n \in Nat
    BY DEF TypeOK
  <2>5. SubSeq(s, 1, n + 1) = Append(SubSeq(s, 1, n), s[n + 1])
    <3> HIDE DEF s, n, Msgs
    <3>1. QED
      BY <2>1, <2>4, Prefixes
  <2>6. ShowsRead(t)' /\ DoneIsLast(t)'
    BY <1>1, <2>1, <2>3, <2>5 DEF ShowsRead, DoneIsLast
  <2>7. rc'[t] \notin Codes
    BY <2>1, Codes255
  <2>8. \A x \in Tasks : Good(x)'
    BY <2>2, <2>6, <2>7
  <2>9. QED
    BY <2>1, <2>8
<1>6. CASE ReadDone
  <2> PICK t \in Tasks : t = task
    BY <1>1, <1>6 DEF ReadDone
  <2> DEFINE n == got[t]
             s == stream[t]
             m == s[n + 1]
  <2>1. /\ rc[t] = Pending /\ n < Len(s) /\ m \in DoneMsg /\ task' = Nobody
        /\ rc' = [rc EXCEPT ![t] = m.code] /\ got' = [got EXCEPT ![t] = n + 1]
        /\ UNCHANGED <<stream, shown>>
    BY <1>1, <1>6 DEF ReadDone, Return, Message
  <2>2. ASSUME NEW x \in Tasks \ {t} PROVE Good(x)'
    <3>1. UNCHANGED <<stream[x], got[x], shown[x], rc[x]>>
      BY <2>1, <2>2 DEF TypeOK
    <3>2. QED
      BY <1>1, <3>1 DEF DoneIsLast, ShowsRead
  <2>3. /\ n \in Nat /\ Len(s) \in Nat /\ DOMAIN s = 1 .. Len(s) /\ rc'[t] = m.code
        /\ UNCHANGED <<stream[t], shown[t]>> /\ shown[t] = SubSeq(s, 1, n)
    BY <1>1, <2>1 DEF TypeOK, ShowsRead
  <2>4. n + 1 = Len(s)
    BY <1>1, <2>1, <2>3 DEF DoneIsLast
  <2>5. s # <<>> /\ n = Len(s) - 1 /\ m = s[Len(s)]
    BY <2>3, <2>4
  <2>6. IsDone(m) /\ m.code \in Codes
    BY <2>1, Kinds
  <2>7. Returned(t)'
    <3> HIDE DEF s, n, m
    <3>1. IsDone(s[Len(s)]) /\ rc'[t] = s[Len(s)].code /\ shown[t] = SubSeq(s, 1, Len(s) - 1)
      BY <2>3, <2>5, <2>6
    <3>2. QED
      BY <2>3, <2>5, <3>1 DEF s
  <2>8. ShowsRead(t)' /\ DoneIsLast(t)'
    <3>1. rc'[t] # Pending
      BY <2>3, <2>6, Codes255
    <3>2. QED
      BY <1>1, <2>3, <3>1 DEF ShowsRead, DoneIsLast
  <2>9. \A x \in Tasks : Good(x)'
    <3> HIDE DEF Good
    <3>1. Good(t)'
      BY <2>7, <2>8 DEF Good
    <3>2. QED
      BY <2>2, <3>1
  <2>10. QED
    BY <2>1, <2>9
<1>7. CASE task \in Tasks /\ Return(Failed) /\ UNCHANGED <<stream, got, shown>>
  <2> PICK t \in Tasks : t = task
    BY <1>7
  <2>1. task' = Nobody /\ rc' = [rc EXCEPT ![t] = Failed] /\ rc'[t] = Failed
    BY <1>7 DEF Return, TypeOK
  <2>2. ASSUME NEW x \in Tasks \ {t} PROVE Good(x)'
    <3>1. UNCHANGED <<stream[x], got[x], shown[x], rc[x]>>
      BY <1>7, <2>1, <2>2 DEF TypeOK
    <3>2. QED
      BY <1>1, <3>1 DEF DoneIsLast, ShowsRead
  <2>3. Good(t)'
    <3>1. rc'[t] # Pending /\ rc'[t] \notin Codes
      BY <2>1, Codes255
    <3>2. QED
      BY <1>1, <1>7, <3>1 DEF DoneIsLast, ShowsRead
  <2>4. \A x \in Tasks : Good(x)'
    BY <2>2, <2>3
  <2>5. QED
    BY <2>1, <2>4
<1>8. ASSUME NEW t \in Tasks, HangUp(t) PROVE UNCHANGED <<stream, got, shown, rc>>
  BY <1>8, HungUp
<1>9. QED
  BY <1>1, <1>3, <1>4, <1>5, <1>6, <1>7, <1>8
  DEF Next, Query, Read, Submit, Answered, Unanswered, Choose, Connect, Fallback, SendTask,
      ReadFails, Finished, vars

\* A verdict that dispatch() returns is the worker's, and all it sent before was shown.
THEOREM VerdictReturned == Spec => []ReturnsVerdict
<1> DEFINE Inv == TypeOK /\ RouteInv /\ SentOnce /\ VerdictInv
<1>1. Init => Inv
  <2>1. Init => VerdictInv
    BY Codes255, SubSeqEmpty
    DEF Init, Worker!Init, VerdictInv, DoneIsLast, ShowsRead, ReturnsVerdict
  <2>2. QED
    BY <2>1, InitHolds
<1>2. Inv /\ [Next]_vars => Inv'
  BY TypeStep, RouteStep, SentStep, VerdictStep
<1>3. Inv => ReturnsVerdict
  BY DEF VerdictInv
<1>4. QED
  BY <1>1, <1>2, <1>3, PTL DEF Spec
===============================================================================
