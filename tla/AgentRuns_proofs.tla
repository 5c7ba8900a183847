---------------------------- MODULE AgentRuns_proofs ----------------------------
(***************************************************************************)
(* Theorems about AgentRuns, for any clients and any number of messages    *)
(* and events: types, runs that keep to themselves, eviction, and the      *)
(* refinement of ReplayLog.                                                *)
(***************************************************************************)
EXTENDS AgentRuns, SequenceTheorems, TLAPS

(***************************************************************************)
(* The inductive invariant of the tasks.  A run that was not sent yet is   *)
(* blank.  A task that is new and not cancelled is the registered run's;   *)
(* one that got further writes to its own run.  Until its task ends, a run *)
(* is "running" and has room for the two events of a failure.              *)
(***************************************************************************)
Blank(r) == sent < r => phase[r] = "none" /\ ~cancelled[r]
Registered(r) == phase[r] = "new" /\ ~cancelled[r] => current = r
OnItsOwn(r) ==
    /\ run[r] \in {0, r}
    /\ phase[r] \in {"waiting", "draining", "saved", "unwinding"} => run[r] = r
Running(r) ==
    /\ phase[r] # "over" => status[r] = "running" /\ buffer[r] <= MaxEvents
    /\ phase[r] \in {"none", "new", "waiting"} => buffer[r] = 0
    /\ phase[r] = "over" /\ status[r] = "running" => buffer[r] = 0

TaskInv ==
    /\ current <= sent
    /\ \A r \in Runs : Blank(r) /\ Registered(r) /\ OnItsOwn(r) /\ Running(r)

(***************************************************************************)
(* The inductive invariant of the clients.  A client has a run exactly     *)
(* while it is one of the run's subscribers.  What it has received is as   *)
(* long as its cursor; its queue holds the latest events of the run, in    *)
(* order and without a gap, then the sentinel if the run has ended while   *)
(* it was subscribed.  A live client has received all that came before.    *)
(***************************************************************************)
Attached(c) ==
    /\ cpc[c] \in Subscribed <=> from[c] # 0
    /\ \A r \in Runs : c \in subscribers[r] <=> from[c] = r
Away(c) ==
    from[c] = 0 => queue[c] = <<>> /\ next[c] = 0 /\ view[c] = <<>>
Cursor(c) ==
    from[c] # 0 => Len(view[c]) = next[c] /\ next[c] <= buffer[from[c]]

\* The queue q holds first, first + 1, ..., last - 1, and then End if ended.
Holds(q, first, last, ended) ==
    /\ first <= last
    /\ Len(q) = (last - first) + (IF ended THEN 1 ELSE 0)
    /\ \A i \in 1..(last - first) : q[i] = first + (i - 1)
    /\ ended => q[Len(q)] = End

Backlog(c, first, ended) ==
    /\ Holds(queue[c], first, buffer[from[c]], ended)
    /\ ended => status[from[c]] # "running"
    /\ cpc[c] = "live" =>
          first <= next[c] /\ (status[from[c]] # "running" => ended)

Queued(c) ==
    from[c] # 0 => \E first \in Numbers, ended \in BOOLEAN : Backlog(c, first, ended)

ClientInv ==
    \A c \in Clients : Attached(c) /\ Away(c) /\ Cursor(c) /\ Queued(c)

IInv == TypeOK /\ TaskInv /\ ClientInv /\ EvictionPending

-----------------------------------------------------------------------------
(***************************************************************************)
(* Queues.                                                                 *)
(***************************************************************************)
Items == Numbers \cup {End}

\* The sentinel is not an event.
LEMMA EndIsNoNumber == End \notin Numbers
BY ConstantsAssumption DEF Numbers

\* An empty queue holds nothing, whatever the last event was.
LEMMA HoldsNothing == ASSUME NEW n \in Nat PROVE Holds(<<>>, n, n, FALSE)
BY DEF Holds

\* One more event is put into a queue.
LEMMA PutEvent ==
  ASSUME NEW q \in Seq(Items), NEW first \in Nat, NEW last \in Numbers,
         Holds(q, first, last, FALSE)
  PROVE  Holds(q \o <<last>>, first, last + 1, FALSE)
<1>1. last \in Nat /\ <<last>> \in Seq(Items)
  BY ConstantsAssumption DEF Numbers, Items
<1>2. Len(q \o <<last>>) = Len(q) + 1
  BY <1>1, ConcatProperties
<1>3. \A i \in 1..(Len(q) + 1) :
          (q \o <<last>>)[i] = IF i <= Len(q) THEN q[i] ELSE last
  BY <1>1, ConcatProperties, Len(<<last>>) = 1
<1>4. Len(q) = last - first /\ first <= last
  BY <1>1 DEF Holds
<1>5. QED
  BY <1>1, <1>2, <1>3, <1>4 DEF Holds

\* The sentinel is put behind what a queue holds.
LEMMA PutEnd ==
  ASSUME NEW q \in Seq(Items), NEW first \in Nat, NEW last \in Nat,
         Holds(q, first, last, FALSE)
  PROVE  Holds(q \o <<End>>, first, last, TRUE)
<1>1. <<End>> \in Seq(Items)
  BY DEF Items
<1>2. Len(q \o <<End>>) = Len(q) + 1
  BY <1>1, ConcatProperties
<1>3. \A i \in 1..(Len(q) + 1) :
          (q \o <<End>>)[i] = IF i <= Len(q) THEN q[i] ELSE End
  BY <1>1, ConcatProperties, Len(<<End>>) = 1
<1>4. Len(q) = last - first /\ first <= last
  BY DEF Holds
<1>5. QED
  BY <1>2, <1>3, <1>4 DEF Holds

\* A failure puts two events and the sentinel into a queue.
LEMMA PutFailure ==
  ASSUME NEW q \in Seq(Items), NEW first \in Nat, NEW last \in Nat,
         last <= MaxEvents, Holds(q, first, last, FALSE)
  PROVE  Holds(q \o Append(<<last, last + 1>>, End), first, last + 2, TRUE)
<1>1. PICK items : items = Append(<<last, last + 1>>, End)
  OBVIOUS
<1>2. last \in Items /\ last + 1 \in Items /\ End \in Items
  BY ConstantsAssumption DEF Numbers, Items
<1>3. /\ items \in Seq(Items) /\ Len(items) = 3
      /\ items[1] = last /\ items[2] = last + 1 /\ items[3] = End
  BY <1>1, <1>2
<1>4. Len(q \o items) = Len(q) + 3
  <2>1. items \in Seq(Items) /\ Len(items) = 3
    BY <1>3
  <2>2. Len(q \o items) = Len(q) + Len(items)
    BY <2>1, ConcatProperties
  <2>3. QED
    BY <2>1, <2>2
<1>5. \A i \in 1..(Len(q) + 3) :
          (q \o items)[i] = IF i <= Len(q) THEN q[i] ELSE items[i - Len(q)]
  BY <1>3, ConcatProperties
<1>6. Len(q) = last - first /\ first <= last
  BY DEF Holds
<1>7. \A i \in 1..(last + 2 - first) : (q \o items)[i] = first + (i - 1)
  <2> SUFFICES ASSUME NEW i \in 1..(last + 2 - first)
               PROVE  (q \o items)[i] = first + (i - 1)
    OBVIOUS
  <2>1. CASE i <= Len(q)
    BY <2>1, <1>5, <1>6 DEF Holds
  <2>2. Len(q) \in Nat /\ i \in 1..(Len(q) + 3)
    BY <1>6, LenProperties
  <2>3. CASE i = Len(q) + 1
    <3>1. i - Len(q) = 1 /\ ~(i <= Len(q)) /\ last = first + (i - 1)
      BY <2>2, <2>3, <1>6
    <3>2. QED
      BY <2>2, <3>1, <1>3, <1>5
  <2>4. CASE i = Len(q) + 2
    <3>1. i - Len(q) = 2 /\ ~(i <= Len(q)) /\ last + 1 = first + (i - 1)
      BY <2>2, <2>4, <1>6
    <3>2. QED
      BY <2>2, <3>1, <1>3, <1>5
  <2>5. i <= Len(q) \/ i = Len(q) + 1 \/ i = Len(q) + 2
    BY <1>6, <2>2
  <2>6. QED
    BY <2>1, <2>3, <2>4, <2>5
<1>8. (q \o items)[Len(q \o items)] = End
  BY <1>3, <1>4, <1>5, <1>6
<1>9. Holds(q \o items, first, last + 2, TRUE)
  BY <1>4, <1>6, <1>7, <1>8 DEF Holds
<1>10. QED
  BY <1>1, <1>9

\* An event is taken out of a queue: it is the first one held.
LEMMA TakeEvent ==
  ASSUME NEW q \in Seq(Items), NEW first \in Nat, NEW last \in Numbers,
         NEW ended \in BOOLEAN, Holds(q, first, last, ended),
         q # <<>>, Head(q) # End
  PROVE  Head(q) = first /\ first < last /\ Holds(Tail(q), first + 1, last, ended)
<1>1. last \in Nat
  BY ConstantsAssumption DEF Numbers
<1>2. Head(q) = q[1] /\ Len(q) \in Nat \ {0} /\ Len(Tail(q)) = Len(q) - 1
  BY HeadTailProperties
<1>3. \A i \in 1..(Len(q) - 1) : Tail(q)[i] = q[i + 1]
  BY HeadTailProperties
<1>4. first < last
  BY <1>1, <1>2 DEF Holds
<1>5. q[1] = first
  BY <1>1, <1>4 DEF Holds
<1>6. \A i \in 1..(last - (first + 1)) : Tail(q)[i] = first + 1 + (i - 1)
  <2> SUFFICES ASSUME NEW i \in 1..(last - (first + 1))
               PROVE  Tail(q)[i] = first + 1 + (i - 1)
    OBVIOUS
  <2>1. i + 1 \in 1..(last - first) /\ i \in 1..(Len(q) - 1)
    BY <1>1, <1>2 DEF Holds
  <2>2. q[i + 1] = first + (i + 1 - 1)
    BY <2>1 DEF Holds
  <2>3. QED
    BY <1>3, <2>1, <2>2
<1>7. ended => Tail(q)[Len(Tail(q))] = End
  BY <1>1, <1>2, <1>3, <1>4 DEF Holds
<1>8. QED
  BY <1>1, <1>2, <1>4, <1>5, <1>6, <1>7 DEF Holds

\* The sentinel is taken out of a queue: no event is left in it.
LEMMA TakeEnd ==
  ASSUME NEW q \in Seq(Items), NEW first \in Nat, NEW last \in Numbers,
         NEW ended \in BOOLEAN, Holds(q, first, last, ended),
         q # <<>>, Head(q) = End
  PROVE  first = last /\ ended
<1>1. last \in Nat
  BY ConstantsAssumption DEF Numbers
<1>2. Head(q) = q[1] /\ Len(q) \in Nat \ {0}
  BY HeadTailProperties
<1>3. ~(first < last)
  <2> SUFFICES ASSUME first < last PROVE FALSE
    OBVIOUS
  <2>1. q[1] = first
    BY <1>1 DEF Holds
  <2>2. QED
    BY <1>2, <2>1, ConstantsAssumption
<1>4. QED
  BY <1>1, <1>2, <1>3 DEF Holds

-----------------------------------------------------------------------------
(***************************************************************************)
(* Type correctness.                                                       *)
(***************************************************************************)
\* Before the first request everything is well typed.
LEMMA InitTyped == Init => TypeOK
BY ConstantsAssumption DEF Init, TypeOK, Runs, Numbers, Phase, Subscribed

\* Queues stay queues of events and sentinels.
LEMMA PushTyped ==
  ASSUME TypeOK, NEW r, NEW items \in Seq(Items), Push(r, items)
  PROVE  queue' \in [Clients -> Seq(Numbers \cup {End})]
<1>1. \A c \in Clients : queue[c] \o items \in Seq(Items)
  BY ConcatProperties DEF TypeOK, Items
<1>2. QED
  BY <1>1 DEF Push, TypeOK, Items

\* The finally clause of a task keeps the types.
LEMMA OverTyped ==
  ASSUME TypeOK, NEW r \in Runs, NEW result \in {"done", "error", "stopped"},
         NEW items, Append(items, End) \in Seq(Items), Over(r, result, items),
         buffer' \in [Runs -> Numbers], saved' \in 0..MaxRuns
  PROVE  TypeOK'
<1>1. queue' \in [Clients -> Seq(Numbers \cup {End})]
  BY PushTyped DEF Over
<1>2. status' \in [Runs -> {"running", "done", "error", "stopped"}]
  BY DEF Over, TypeOK
<1>3. evicting' \in [Runs -> BOOLEAN] /\ cancelled' \in [Runs -> BOOLEAN]
  BY DEF Over, ScheduleEvict, TypeOK
<1>4. phase' \in [Runs -> Phase]
  BY DEF Over, Goto, Phase, TypeOK
<1>5. QED
  BY <1>1, <1>2, <1>3, <1>4 DEF Over, TypeOK, registry

\* The two items of a failure fit into a buffer.
LEMMA RoomForFailure ==
  ASSUME NEW n \in Nat, n <= MaxEvents
  PROVE  /\ n \in Numbers /\ n + 1 \in Numbers /\ n + 2 \in Numbers
         /\ Append(<<n, n + 1>>, End) \in Seq(Items)
<1>1. n \in Numbers /\ n + 1 \in Numbers /\ n + 2 \in Numbers
  BY ConstantsAssumption DEF Numbers
<1>2. n \in Items /\ n + 1 \in Items /\ End \in Items
  BY <1>1 DEF Items
<1>3. QED
  BY <1>1, <1>2

\* A task that can write has its own run, with room in it.
LEMMA WritesWhereItShould ==
  ASSUME TypeOK, TaskInv, NEW r \in Runs,
         phase[r] \in {"draining", "saved", "unwinding"}
  PROVE  /\ run[r] = r /\ status[r] = "running"
         /\ buffer[r] \in Nat /\ buffer[r] <= MaxEvents /\ r <= sent
BY ConstantsAssumption
   DEF TypeOK, TaskInv, OnItsOwn, Running, Blank, Runs, Numbers

\* A request keeps the types.
LEMMA RequestTyped ==
  ASSUME TypeOK, NEW c \in Clients, Send(c) \/ Resume(c)
  PROVE  TypeOK'
<1> USE ConstantsAssumption
<1>1. CASE Send(c)
  <2>1. sent + 1 \in Runs /\ sent + 1 \in 0..MaxRuns /\ current \in 0..MaxRuns
    BY <1>1 DEF Send, TypeOK, Runs
  <2>2. cpc' \in [Clients -> {"off", "connecting", "finished"} \cup Subscribed]
    BY <1>1 DEF Send, Connect, TypeOK
  <2>3. phase' \in [Runs -> Phase]
    BY <1>1, <2>1 DEF Send, Goto, Phase, TypeOK
  <2>4. /\ cancelled' \in [Runs -> BOOLEAN]
        /\ evicting' \in [Runs -> BOOLEAN]
        /\ prev' \in [Runs -> 0..MaxRuns]
    BY <1>1, <2>1 DEF Send, TypeOK
  <2>5. current' \in 0..MaxRuns /\ sent' \in 0..MaxRuns
    BY <1>1, <2>1 DEF Send
  <2>6. QED
    BY <1>1, <2>2, <2>3, <2>4, <2>5 DEF Send, Connect, TypeOK
<1>2. CASE Resume(c)
  BY <1>2 DEF Resume, Connect, TypeOK, registry, runs, tasks
<1>3. QED
  BY <1>1, <1>2

\* A step of a task keeps the types.
LEMMA TaskTyped ==
  ASSUME TypeOK, TaskInv, NEW r \in Runs, TaskStep(r) \/ Evict(r)
  PROVE  TypeOK'
<1> USE ConstantsAssumption
<1>1. CASE Begin(r)
  <2>1. run' \in [Runs -> 0..MaxRuns] /\ cancelled' \in [Runs -> BOOLEAN]
    BY <1>1 DEF Begin, TypeOK
  <2>2. phase' \in [Runs -> Phase]
    BY <1>1 DEF Begin, Goto, Phase, TypeOK
  <2>3. QED
    BY <1>1, <2>1, <2>2 DEF Begin, TypeOK, registry, runs, clients
<1>2. CASE Wait(r)
  BY <1>2 DEF Wait, Goto, Phase, TypeOK, registry, runs, clients
<1>3. CASE Interrupt(r)
  BY <1>3 DEF Interrupt, Goto, Phase, TypeOK, registry, runs, clients
<1>4. CASE Save(r)
  BY <1>4 DEF Save, Goto, Phase, TypeOK, registry, runs, clients, Runs
<1>5. CASE Evict(r)
  BY <1>5 DEF Evict, TypeOK, tasks, clients
<1>6. CASE Publish(r)
  <2>1. run[r] = r /\ buffer[r] \in Nat /\ buffer[r] < MaxEvents
    BY <1>6, WritesWhereItShould DEF Publish, Pulling
  <2>2. buffer[r] \in Items /\ buffer[r] + 1 \in Numbers
    BY <2>1 DEF Items, Numbers
  <2>3. queue' \in [Clients -> Seq(Numbers \cup {End})]
    BY <1>6, <2>1, <2>2, PushTyped, <<buffer[r]>> \in Seq(Items) DEF Publish
  <2>4. buffer' \in [Runs -> Numbers]
    BY <1>6, <2>1, <2>2 DEF Publish, TypeOK
  <2>5. QED
    BY <1>6, <2>3, <2>4 DEF Publish, TypeOK, registry, tasks
<1>7. End \in Items /\ Append(<<>>, End) \in Seq(Items)
  BY DEF Items
<1>8. CASE Complete(r)
  <2>1. buffer' \in [Runs -> Numbers] /\ saved' \in 0..MaxRuns
    BY <1>8 DEF Complete, TypeOK
  <2>2. QED
    BY <1>7, <1>8, <2>1, OverTyped DEF Complete
<1>9. CASE Unwound(r)
  <2>1. buffer' \in [Runs -> Numbers] /\ saved' \in 0..MaxRuns
    BY <1>9 DEF Unwound, TypeOK, Runs
  <2>2. QED
    BY <1>7, <1>9, <2>1, OverTyped DEF Unwound
<1>10. CASE Fail(r)
  <2>1. run[r] = r /\ buffer[r] \in Nat /\ buffer[r] <= MaxEvents
    BY <1>10, WritesWhereItShould DEF Fail, Pulling
  <2>2. buffer' \in [Runs -> Numbers] /\ saved' \in 0..MaxRuns
    BY <1>10, <2>1, RoomForFailure DEF Fail, TypeOK
  <2>3. Append(<<buffer[r], buffer[r] + 1>>, End) \in Seq(Items)
    BY <2>1, RoomForFailure
  <2>4. QED
    BY <1>10, <2>1, <2>2, <2>3, OverTyped DEF Fail
<1>11. QED
  BY <1>1, <1>2, <1>3, <1>4, <1>5, <1>6, <1>8, <1>9, <1>10 DEF TaskStep, Advance

\* A client that leaves keeps the types.
LEMMA LeaveTyped ==
  ASSUME TypeOK, NEW c \in Clients, NEW how \in {"off", "finished"}, Close(c, how),
         Unsubscribe(c) \/ UNCHANGED <<subscribers, evicting>>,
         UNCHANGED <<registry, status, buffer, tasks, saved>>
  PROVE  TypeOK'
<1>1. subscribers' \in [Runs -> SUBSET Clients] /\ evicting' \in [Runs -> BOOLEAN]
  <2>1. CASE Unsubscribe(c)
    <3>1. subscribers' \in [Runs -> SUBSET Clients]
      BY <2>1 DEF Unsubscribe, TypeOK
    <3>2. evicting' = evicting \/ ScheduleEvict
      BY <2>1 DEF Unsubscribe
    <3>3. QED
      BY <3>1, <3>2 DEF ScheduleEvict, TypeOK
  <2>2. QED
    BY <2>1 DEF TypeOK
<1>2. cpc' \in [Clients -> {"off", "connecting", "finished"} \cup Subscribed]
  BY DEF Close, TypeOK
<1>3. from' \in [Clients -> 0..MaxRuns] /\ next' \in [Clients -> Numbers]
  BY ConstantsAssumption DEF Close, TypeOK, Numbers
<1>4. /\ queue' \in [Clients -> Seq(Numbers \cup {End})]
      /\ view' \in [Clients -> Seq(Numbers)]
  BY DEF Close, TypeOK
<1>5. QED
  BY <1>1, <1>2, <1>3, <1>4 DEF TypeOK, registry, tasks

\* A client that is given an event keeps the types.
LEMMA YieldTyped ==
  ASSUME TypeOK, NEW c \in Clients, NEW n \in Numbers, n + 1 \in Numbers,
         Yield(c, n)
  PROVE  next' \in [Clients -> Numbers] /\ view' \in [Clients -> Seq(Numbers)]
<1>1. Append(view[c], n) \in Seq(Numbers)
  BY DEF TypeOK
<1>2. QED
  BY <1>1 DEF Yield, TypeOK

\* A step of a subscriber keeps the types.
LEMMA ClientTyped ==
  ASSUME TypeOK, TaskInv, ClientInv, NEW c \in Clients, ClientStep(c) \/ Disconnect(c)
  PROVE  TypeOK'
<1> USE ConstantsAssumption
<1>1. CASE Subscribe(c)
  <2>1. CASE current = 0
    <3>1. cpc' \in [Clients -> {"off", "connecting", "finished"} \cup Subscribed]
      BY <1>1, <2>1 DEF Subscribe, TypeOK
    <3>2. QED
      BY <1>1, <2>1, <3>1 DEF Subscribe, TypeOK, registry, runs, tasks
  <2>2. CASE current # 0
    <3>1. subscribers' \in [Runs -> SUBSET Clients]
      <4>1. subscribers' = [subscribers EXCEPT ![current] = @ \cup {c}]
        BY <1>1, <2>2 DEF Subscribe
      <4>2. current \in Runs /\ subscribers[current] \cup {c} \in SUBSET Clients
        BY <2>2 DEF TypeOK, Runs
      <4>3. QED
        BY <4>1, <4>2 DEF TypeOK
    <3>2. evicting' \in [Runs -> BOOLEAN]
      <4>1. evicting' = [evicting EXCEPT ![current] = FALSE]
        BY <1>1, <2>2 DEF Subscribe
      <4>2. QED
        BY <4>1 DEF TypeOK
    <3>3. cpc' \in [Clients -> {"off", "connecting", "finished"} \cup Subscribed]
      BY <1>1, <2>2 DEF Subscribe, TypeOK, Subscribed
    <3>4. from' \in [Clients -> 0..MaxRuns]
      BY <1>1, <2>2 DEF Subscribe, TypeOK
    <3>5. QED
      BY <1>1, <2>2, <3>1, <3>2, <3>3, <3>4 DEF Subscribe, TypeOK, registry, tasks
  <2>3. QED
    BY <2>1, <2>2
<1>2. CASE Replay(c)
  <2>1. from[c] \in Runs
    BY <1>2 DEF Replay, ClientInv, Attached, Subscribed, TypeOK, Runs
  <2>2. next[c] \in Numbers /\ buffer[from[c]] \in Numbers
    BY <2>1 DEF TypeOK
  <2>3. CASE next[c] < buffer[from[c]] /\ Yield(c, next[c])
             /\ UNCHANGED <<subscribers, evicting, cpc, from, queue>>
    <3>1. next[c] + 1 \in Numbers
      BY <2>2, <2>3 DEF Numbers
    <3>2. next' \in [Clients -> Numbers] /\ view' \in [Clients -> Seq(Numbers)]
      BY <2>2, <2>3, <3>1, YieldTyped
    <3>3. QED
      BY <1>2, <2>3, <3>2 DEF Replay, TypeOK, registry, tasks
  <2>4. CASE Unsubscribe(c) /\ Close(c, "finished")
    BY <1>2, <2>4, LeaveTyped DEF Replay
  <2>5. CASE cpc' = [cpc EXCEPT ![c] = "live"]
             /\ UNCHANGED <<subscribers, evicting, from, queue, next, view>>
    BY <1>2, <2>5 DEF Replay, TypeOK, Subscribed, registry, tasks
  <2>6. QED
    BY <1>2, <2>3, <2>4, <2>5 DEF Replay
<1>3. CASE Receive(c)
  <2>1. from[c] \in Runs
    BY <1>3 DEF Receive, ClientInv, Attached, Subscribed, TypeOK, Runs
  <2>2. PICK first \in Numbers, ended \in BOOLEAN :
            Holds(queue[c], first, buffer[from[c]], ended)
    BY <2>1 DEF ClientInv, Queued, Backlog, Runs
  <2>3. queue[c] \in Seq(Items) /\ first \in Nat /\ buffer[from[c]] \in Numbers
    BY <2>1 DEF TypeOK, Items, Numbers
  <2>4. Head(queue[c]) = first /\ first < buffer[from[c]]
    BY <1>3, <2>2, <2>3, TakeEvent DEF Receive
  <2>5. first + 1 \in Numbers
    BY <2>3, <2>4 DEF Numbers
  <2>6. next' \in [Clients -> Numbers] /\ view' \in [Clients -> Seq(Numbers)]
    <3>1. CASE Yield(c, Head(queue[c]))
      BY <2>4, <2>5, <3>1, YieldTyped
    <3>2. QED
      BY <1>3, <3>1 DEF Receive, TypeOK
  <2>7. queue' \in [Clients -> Seq(Numbers \cup {End})]
    <3>1. Tail(queue[c]) \in Seq(Numbers \cup {End})
      BY <1>3, HeadTailProperties DEF Receive, TypeOK
    <3>2. QED
      BY <1>3, <3>1 DEF Receive, TypeOK
  <2>8. QED
    BY <1>3, <2>6, <2>7 DEF Receive, TypeOK, registry, runs, tasks
<1>4. CASE ReceiveEnd(c)
  BY <1>4, LeaveTyped DEF ReceiveEnd
<1>5. CASE Disconnect(c)
  BY <1>5, LeaveTyped DEF Disconnect
<1>6. QED
  BY <1>1, <1>2, <1>3, <1>4, <1>5 DEF ClientStep

\* Every step keeps the types.
LEMMA NextTyped ==
  ASSUME TypeOK, TaskInv, ClientInv, [Next]_vars PROVE TypeOK'
<1>1. CASE UNCHANGED vars
  BY <1>1 DEF TypeOK, vars, registry, runs, tasks, clients
<1>2. CASE Stop
  BY <1>2 DEF Stop, TypeOK, registry, runs, clients
<1>3. QED
  BY <1>1, <1>2, RequestTyped, TaskTyped, ClientTyped DEF Next

-----------------------------------------------------------------------------
(***************************************************************************)
(* The tasks keep to their own runs.                                       *)
(***************************************************************************)
\* Before the first request there is no task.
LEMMA InitTasks == Init => TaskInv
BY ConstantsAssumption
   DEF Init, TaskInv, Blank, Registered, OnItsOwn, Running, Runs

\* A step that changes neither the registry nor what the tasks look at.
LEMMA TasksUntouched ==
  ASSUME TypeOK, TaskInv, UNCHANGED <<registry, status, buffer, tasks>>
  PROVE  TaskInv'
BY DEF TaskInv, Blank, Registered, OnItsOwn, Running, registry, tasks

\* The finally clause of a task.
LEMMA OverKeepsTasks ==
  ASSUME TypeOK, TaskInv, NEW r \in Runs, NEW result, NEW items, result # "running",
         phase[r] \in {"draining", "saved", "unwinding"}, Over(r, result, items),
         \A k \in Runs : k # r => buffer'[k] = buffer[k]
  PROVE  TaskInv'
<1>1. run[r] = r /\ r <= sent
  BY WritesWhereItShould
<1>2. current' = current /\ sent' = sent /\ run' = run
  BY DEF Over, registry
<1>3. \A k \in Runs : k # r => status'[k] = status[k] /\ phase'[k] = phase[k]
                               /\ cancelled'[k] = cancelled[k]
  BY <1>1 DEF Over, Goto, TypeOK
<1>4. phase'[r] = "over" /\ ~cancelled'[r] /\ status'[r] = result
  BY <1>1 DEF Over, Goto, TypeOK
<1>5. \A k \in Runs : Blank(k)' /\ Registered(k)' /\ OnItsOwn(k)' /\ Running(k)'
  BY <1>1, <1>2, <1>3, <1>4 DEF TaskInv, Blank, Registered, OnItsOwn, Running, Runs
<1>6. QED
  BY <1>2, <1>5 DEF TaskInv

\* A task that moves on, without touching its run.
LEMMA MoveKeepsTasks ==
  ASSUME TypeOK, TaskInv, NEW r \in Runs, phase[r] \notin {"none", "over"},
         phase'[r] \notin {"none", "new"},
         phase'[r] \in {"over", "waiting"} => phase[r] \in {"new", "waiting"},
         phase'[r] # "over" => run'[r] = r, run'[r] \in {0, r},
         \A k \in Runs : k # r => /\ phase'[k] = phase[k] /\ run'[k] = run[k]
                                  /\ cancelled'[k] <=> cancelled[k],
         UNCHANGED <<registry, status, buffer>>
  PROVE  TaskInv'
<1>1. current' = current /\ sent' = sent /\ r <= sent
  BY DEF registry, TaskInv, Blank, TypeOK, Runs
<1>2. Blank(r)' /\ Registered(r)' /\ OnItsOwn(r)' /\ Running(r)'
  BY <1>1 DEF TaskInv, Blank, Registered, OnItsOwn, Running, TypeOK, Runs
<1>3. \A k \in Runs \ {r} : Blank(k)' /\ Registered(k)' /\ OnItsOwn(k)' /\ Running(k)'
  BY <1>1 DEF TaskInv, Blank, Registered, OnItsOwn, Running
<1>4. QED
  BY <1>1, <1>2, <1>3 DEF TaskInv

\* A step of a task, or the end of a grace period.
LEMMA TaskKeepsTasks ==
  ASSUME TypeOK, TaskInv, NEW r \in Runs, TaskStep(r) \/ Evict(r)
  PROVE  TaskInv'
<1>1. CASE Begin(r)
  <2>1. /\ UNCHANGED <<registry, status, buffer>>
        /\ phase[r] = "new" /\ ~cancelled[r] => current = r
    BY <1>1 DEF Begin, runs, TaskInv, Registered
  <2>2. \A k \in Runs : k # r => /\ phase'[k] = phase[k] /\ run'[k] = run[k]
                                 /\ cancelled'[k] <=> cancelled[k]
    BY <1>1 DEF Begin, Goto, TypeOK
  <2>3. phase[r] = "new" /\ phase'[r] \in {"over", "waiting", "draining"}
    BY <1>1 DEF Begin, Goto, TypeOK
  <2>4. run'[r] \in {0, r} /\ (phase'[r] # "over" => run'[r] = r)
    BY <1>1, <2>1 DEF Begin, Goto, TypeOK, TaskInv, OnItsOwn
  <2>5. QED
    BY <2>1, <2>2, <2>3, <2>4, MoveKeepsTasks
<1>2. CASE Wait(r) \/ Interrupt(r) \/ Save(r)
  <2>1. UNCHANGED <<registry, status, buffer, run>>
    BY <1>2 DEF Wait, Interrupt, Save, runs
  <2>2. \A k \in Runs : k # r => /\ phase'[k] = phase[k] /\ run'[k] = run[k]
                                 /\ cancelled'[k] <=> cancelled[k]
    BY <1>2, <2>1 DEF Wait, Interrupt, Save, Goto, TypeOK
  <2>3. /\ phase[r] \in {"waiting", "draining", "saved"}
        /\ phase'[r] \in {"over", "draining", "unwinding", "saved"}
        /\ phase'[r] = "over" => phase[r] = "waiting"
    BY <1>2 DEF Wait, Interrupt, Save, Goto, TypeOK
  <2>4. run'[r] = r
    BY <2>1, <2>3 DEF TaskInv, OnItsOwn
  <2>5. QED
    BY <2>1, <2>2, <2>3, <2>4, MoveKeepsTasks
<1>5. CASE Evict(r)
  <2>1. sent' = sent /\ UNCHANGED <<status, buffer, phase, cancelled, run>>
    BY <1>5 DEF Evict, tasks
  <2>2. CASE current' = current
    BY <2>1, <2>2 DEF TaskInv, Blank, Registered, OnItsOwn, Running
  <2>3. CASE current' # current
    <3>1. current' = 0 /\ current = r /\ status[r] # "running"
      BY <1>5, <2>3 DEF Evict
    <3>2. phase[r] = "over"
      BY <3>1 DEF TaskInv, Running
    <3>3. QED
      BY <2>1, <3>1, <3>2 DEF TaskInv, Blank, Registered, OnItsOwn, Running, TypeOK
  <2>4. QED
    BY <2>2, <2>3
<1>6. CASE Publish(r)
  <2>1. run[r] = r /\ buffer[r] \in Nat /\ buffer[r] < MaxEvents
    BY <1>6, WritesWhereItShould DEF Publish, Pulling
  <2>2. buffer' = [buffer EXCEPT ![r] = buffer[r] + 1]
    BY <1>6, <2>1 DEF Publish
  <2>3. \A k \in Runs : buffer'[k] = IF k = r THEN buffer[r] + 1 ELSE buffer[k]
    BY <2>2 DEF TypeOK
  <2>4. UNCHANGED <<current, sent, status, phase, cancelled, run>>
    BY <1>6 DEF Publish, registry, tasks
  <2>5. \A k \in Runs : Running(k)'
    <3>1. phase[r] \in {"draining", "saved"}
      BY <1>6 DEF Publish, Pulling
    <3>2. QED
      BY <2>1, <2>3, <2>4, <3>1, ConstantsAssumption DEF TaskInv, Running
  <2>6. QED
    BY <2>4, <2>5 DEF TaskInv, Blank, Registered, OnItsOwn
<1>7. CASE Complete(r)
  BY <1>7, OverKeepsTasks DEF Complete, Pulling
<1>8. CASE Unwound(r)
  BY <1>8, OverKeepsTasks DEF Unwound
<1>9. CASE Fail(r)
  <2>1. phase[r] \in {"draining", "saved", "unwinding"}
    BY <1>9 DEF Fail, Pulling
  <2>2. run[r] = r
    BY <2>1, WritesWhereItShould
  <2>3. \A k \in Runs : k # r => buffer'[k] = buffer[k]
    BY <1>9, <2>2 DEF Fail, TypeOK
  <2>4. QED
    BY <1>9, <2>1, <2>3, OverKeepsTasks DEF Fail
<1>10. QED
  BY <1>1, <1>2, <1>5, <1>6, <1>7, <1>8, <1>9 DEF TaskStep, Advance

\* Every step.
LEMMA NextKeepsTasks == ASSUME TypeOK, TaskInv, [Next]_vars PROVE TaskInv'
<1>1. CASE UNCHANGED vars
  BY <1>1, TasksUntouched DEF vars, runs
<1>2. CASE Stop
  <2>1. UNCHANGED <<current, sent, status, buffer, phase, run>>
    BY <1>2 DEF Stop, registry, runs
  <2>2. current \in Runs /\ Alive(current)
    BY <1>2 DEF Stop, TypeOK, Runs
  <2>3. \A k \in Runs : cancelled'[k] <=> cancelled[k] \/ k = current
    BY <1>2, <2>2 DEF Stop, TypeOK
  <2>4. QED
    BY <2>1, <2>2, <2>3 DEF TaskInv, Blank, Registered, OnItsOwn, Running, Alive
<1>3. ASSUME NEW c \in Clients, Send(c) PROVE TaskInv'
  <2>1. sent + 1 \in Runs /\ sent \in Nat /\ current \in Nat /\ current <= sent
    BY <1>3, ConstantsAssumption DEF Send, TypeOK, Runs, TaskInv
  <2>2. /\ current' = sent + 1 /\ sent' = sent + 1
        /\ UNCHANGED <<status, buffer, run>>
    BY <1>3 DEF Send
  <2>3. \A k \in Runs : phase'[k] = IF k = sent + 1 THEN "new" ELSE phase[k]
    BY <1>3 DEF Send, Goto, TypeOK
  <2>4. \A k \in Runs :
            cancelled'[k] <=> cancelled[k] \/ (current # 0 /\ Alive(current) /\ k = current)
    BY <1>3 DEF Send
  <2>5. phase[sent + 1] = "none"
    BY <2>1 DEF TaskInv, Blank
  <2>6. \A k \in Runs : Blank(k)'
    BY <2>1, <2>2, <2>3, <2>4 DEF TaskInv, Blank, Runs
  <2>7. \A k \in Runs : Registered(k)'
    BY <2>1, <2>2, <2>3, <2>4 DEF TaskInv, Registered, Alive, Runs
  <2>8. \A k \in Runs : OnItsOwn(k)' /\ Running(k)'
    BY <2>2, <2>3, <2>5 DEF TaskInv, OnItsOwn, Running
  <2>9. QED
    BY <2>1, <2>2, <2>6, <2>7, <2>8 DEF TaskInv
<1>4. ASSUME NEW c \in Clients, Resume(c) \/ ClientStep(c) \/ Disconnect(c)
      PROVE  TaskInv'
  <2>1. UNCHANGED <<registry, status, buffer, tasks>>
    BY <1>4 DEF Resume, ClientStep, Subscribe, Replay, Receive, ReceiveEnd, Disconnect,
                runs
  <2>2. QED
    BY <2>1, TasksUntouched
<1>5. QED
  BY <1>1, <1>2, <1>3, <1>4, TaskKeepsTasks DEF Next

-----------------------------------------------------------------------------
(***************************************************************************)
(* The clients and their queues.                                           *)
(***************************************************************************)
Own(c) == Attached(c) /\ Away(c) /\ Cursor(c) /\ Queued(c)

\* Before the first request nobody is connected.
LEMMA InitClients == Init => ClientInv
<1> SUFFICES ASSUME Init, NEW c \in Clients PROVE Own(c)
  BY DEF ClientInv, Own
<1>1. from[c] = 0 /\ cpc[c] = "off"
  BY DEF Init
<1>2. Attached(c)
  BY <1>1 DEF Init, Attached, Runs, Subscribed
<1>3. Away(c) /\ Cursor(c) /\ Queued(c)
  BY <1>1 DEF Init, Away, Cursor, Queued
<1>4. QED
  BY <1>2, <1>3 DEF Own

\* What a subscriber's part of the invariant says in terms of its run.
LEMMA Reading ==
  ASSUME TypeOK, ClientInv, NEW c \in Clients, cpc[c] \in Subscribed
  PROVE  /\ from[c] \in Runs
         /\ next[c] \in Nat /\ buffer[from[c]] \in Nat /\ next[c] <= buffer[from[c]]
         /\ Len(view[c]) = next[c]
         /\ queue[c] \in Seq(Items)
<1>1. from[c] \in Runs
  BY DEF TypeOK, ClientInv, Attached, Runs
<1>2. QED
  BY <1>1, ConstantsAssumption DEF TypeOK, ClientInv, Cursor, Numbers, Items, Runs

\* A client that a step does not concern.
LEMMA ClientUntouched ==
  ASSUME TypeOK, ClientInv, NEW c \in Clients,
         from'[c] = from[c], queue'[c] = queue[c], next'[c] = next[c],
         view'[c] = view[c], cpc'[c] \in Subscribed <=> cpc[c] \in Subscribed,
         cpc'[c] = "live" => cpc[c] = "live",
         \A r \in Runs : c \in subscribers'[r] <=> c \in subscribers[r],
         from[c] \in Runs => /\ buffer'[from[c]] = buffer[from[c]]
                             /\ status'[from[c]] = status[from[c]]
  PROVE  Own(c)'
<1>1. from[c] = 0 \/ from[c] \in Runs
  BY DEF TypeOK, Runs
<1>2. Attached(c)' /\ Away(c)'
  BY DEF ClientInv, Attached, Away
<1>3. Cursor(c)' /\ Queued(c)'
  BY <1>1 DEF ClientInv, Cursor, Queued, Backlog, Runs
<1>4. QED
  BY <1>2, <1>3 DEF Own

\* A step that does not touch the clients, their runs and their queues.
LEMMA ClientsUntouched ==
  ASSUME TypeOK, ClientInv, UNCHANGED <<clients, subscribers, status, buffer>>
  PROVE  ClientInv'
<1>1. \A c \in Clients : Own(c)'
  BY ClientUntouched DEF clients
<1>2. QED
  BY <1>1 DEF ClientInv, Own

\* What a task puts into a run's queues is what it adds to the run.
LEMMA PushKeepsClients ==
  ASSUME TypeOK, ClientInv, NEW r \in Runs, NEW items,
         status[r] = "running", Push(r, items),
         UNCHANGED <<subscribers, cpc, from, next, view>>,
         \A k \in Runs : k # r => buffer'[k] = buffer[k] /\ status'[k] = status[k],
         buffer'[r] \in Nat, buffer[r] <= buffer'[r],
         NEW ended \in BOOLEAN, ended <=> status'[r] # "running",
         \A q \in Seq(Items), first \in Numbers :
             Holds(q, first, buffer[r], FALSE)
                 => Holds(q \o items, first, buffer'[r], ended)
  PROVE  ClientInv'
<1>1. SUFFICES ASSUME NEW c \in Clients PROVE Own(c)'
  BY DEF ClientInv, Own
<1>2. CASE from[c] # r
  <2>1. queue'[c] = queue[c]
    BY <1>2 DEF Push, ClientInv, Attached
  <2>2. QED
    BY <1>2, <2>1, ClientUntouched
<1>3. CASE from[c] = r
  <2>1. cpc[c] \in Subscribed /\ c \in subscribers[r] /\ from'[c] = r /\ r # 0
    BY <1>3 DEF ClientInv, Attached, Runs
  <2>2. queue'[c] = queue[c] \o items
    BY <2>1 DEF Push
  <2>3. PICK first \in Numbers, e \in BOOLEAN : Backlog(c, first, e)
    BY <1>3, <2>1 DEF ClientInv, Queued
  <2>4. ~e /\ Holds(queue[c], first, buffer[r], FALSE)
    BY <1>3, <2>3 DEF Backlog
  <2>5. Holds(queue'[c], first, buffer'[r], ended)
    BY <2>1, <2>2, <2>4, Reading
  <2>6. Backlog(c, first, ended)'
    BY <1>3, <2>1, <2>3, <2>5 DEF Backlog
  <2>7. Queued(c)'
    BY <2>6 DEF Queued
  <2>8. Attached(c)' /\ Away(c)'
    BY <2>1 DEF ClientInv, Attached, Away
  <2>9. Cursor(c)'
    BY <1>3, <2>1, Reading DEF Cursor
  <2>10. QED
    BY <2>7, <2>8, <2>9 DEF Own
<1>4. QED
  BY <1>2, <1>3

\* A client that connects is not a subscriber yet.
LEMMA ConnectKeepsClients ==
  ASSUME TypeOK, ClientInv, NEW c \in Clients, Connect(c),
         UNCHANGED <<subscribers, status, buffer>>
  PROVE  ClientInv'
<1>1. /\ UNCHANGED <<from, queue, next, view>>
      /\ cpc[c] \notin Subscribed /\ cpc'[c] \notin Subscribed /\ cpc'[c] # "live"
      /\ \A d \in Clients : d # c => cpc'[d] = cpc[d]
  BY DEF Connect, TypeOK, Subscribed
<1>2. \A d \in Clients : Own(d)'
  BY <1>1, ClientUntouched
<1>3. QED
  BY <1>2 DEF ClientInv, Own

\* A step of a task, or the end of a grace period.
LEMMA TaskKeepsClients ==
  ASSUME TypeOK, TaskInv, ClientInv, NEW r \in Runs, TaskStep(r) \/ Evict(r)
  PROVE  ClientInv'
<1>1. CASE (Advance(r) /\ ~Unwound(r)) \/ Save(r) \/ Evict(r)
  <2>1. UNCHANGED <<clients, subscribers, status, buffer>>
    BY <1>1 DEF Advance, Begin, Wait, Interrupt, Save, Evict, runs
  <2>2. QED
    BY <2>1, ClientsUntouched
<1>2. CASE Publish(r)
  <2>1. /\ run[r] = r /\ status[r] = "running"
        /\ buffer[r] \in Nat /\ buffer[r] < MaxEvents
    BY <1>2, WritesWhereItShould DEF Publish, Pulling
  <2>2. buffer[r] \in Numbers
    BY <2>1, ConstantsAssumption DEF Numbers
  <2>3. /\ buffer' = [buffer EXCEPT ![r] = buffer[r] + 1]
        /\ Push(r, <<buffer[r]>>)
        /\ UNCHANGED <<status, subscribers, cpc, from, next, view>>
    BY <1>2, <2>1 DEF Publish
  <2>4. /\ buffer'[r] = buffer[r] + 1
        /\ \A k \in Runs : k # r => buffer'[k] = buffer[k] /\ status'[k] = status[k]
    BY <2>3 DEF TypeOK
  <2>5. \A q \in Seq(Items), first \in Numbers :
            Holds(q, first, buffer[r], FALSE)
                => Holds(q \o <<buffer[r]>>, first, buffer'[r], FALSE)
    <3>1. \A first \in Numbers : first \in Nat
      BY ConstantsAssumption DEF Numbers
    <3>2. QED
      BY <2>2, <2>4, <3>1, PutEvent
  <2>6. buffer'[r] \in Nat /\ buffer[r] <= buffer'[r] /\ status'[r] = "running"
    BY <2>1, <2>3, <2>4
  <2>7. QED
    BY <2>1, <2>3, <2>4, <2>5, <2>6, PushKeepsClients
<1>3. CASE Complete(r) \/ Unwound(r)
  <2>1. phase[r] \in {"draining", "saved", "unwinding"}
    BY <1>3 DEF Complete, Unwound, Pulling
  <2>2. run[r] = r /\ status[r] = "running" /\ buffer[r] \in Nat
    BY <2>1, WritesWhereItShould
  <2>3. PICK result \in {"done", "stopped"} : Over(r, result, <<>>)
    BY <1>3 DEF Complete, Unwound
  <2>4. /\ status' = [status EXCEPT ![r] = result]
        /\ Push(r, <<End>>)
        /\ UNCHANGED <<buffer, subscribers, cpc, from, next, view>>
    BY <1>3, <2>2, <2>3 DEF Over, Complete, Unwound
  <2>5. /\ status'[r] # "running"
        /\ \A k \in Runs : k # r => buffer'[k] = buffer[k] /\ status'[k] = status[k]
    BY <2>3, <2>4 DEF TypeOK
  <2>6. \A q \in Seq(Items), first \in Numbers :
            Holds(q, first, buffer[r], FALSE)
                => Holds(q \o <<End>>, first, buffer'[r], TRUE)
    <3>1. \A first \in Numbers : first \in Nat
      BY ConstantsAssumption DEF Numbers
    <3>2. QED
      BY <2>2, <2>4, <3>1, PutEnd
  <2>7. buffer'[r] \in Nat /\ buffer[r] <= buffer'[r] /\ status[r] = "running"
    BY <2>2, <2>4
  <2>8. QED
    BY <2>4, <2>5, <2>6, <2>7, PushKeepsClients
<1>4. CASE Fail(r)
  <2>1. phase[r] \in {"draining", "saved", "unwinding"}
    BY <1>4 DEF Fail, Pulling
  <2>2. /\ run[r] = r /\ status[r] = "running"
        /\ buffer[r] \in Nat /\ buffer[r] <= MaxEvents
    BY <2>1, WritesWhereItShould
  <2>3. PICK items : items = Append(<<buffer[r], buffer[r] + 1>>, End)
    OBVIOUS
  <2>4. /\ status' = [status EXCEPT ![r] = "error"]
        /\ buffer' = [buffer EXCEPT ![r] = buffer[r] + 2]
        /\ Push(r, items)
        /\ UNCHANGED <<subscribers, cpc, from, next, view>>
    BY <1>4, <2>2, <2>3 DEF Over, Fail
  <2>5. /\ status'[r] # "running" /\ buffer'[r] = buffer[r] + 2
        /\ \A k \in Runs : k # r => buffer'[k] = buffer[k] /\ status'[k] = status[k]
    BY <2>4 DEF TypeOK
  <2>6. \A q \in Seq(Items), first \in Numbers :
            Holds(q, first, buffer[r], FALSE)
                => Holds(q \o items, first, buffer'[r], TRUE)
    <3>1. \A first \in Numbers : first \in Nat
      BY ConstantsAssumption DEF Numbers
    <3>2. QED
      BY <2>2, <2>3, <2>5, <3>1, PutFailure
  <2>7. buffer'[r] \in Nat /\ buffer[r] <= buffer'[r]
    BY <2>2, <2>5
  <2>8. QED
    BY <2>2, <2>4, <2>5, <2>6, <2>7, PushKeepsClients
<1>5. QED
  BY <1>1, <1>2, <1>3, <1>4 DEF TaskStep, Advance

\* A client that subscribes finds its queue empty.
LEMMA SubscribeKeepsClients ==
  ASSUME TypeOK, TaskInv, ClientInv, NEW c \in Clients, Subscribe(c)
  PROVE  ClientInv'
<1>1. cpc[c] = "connecting" /\ UNCHANGED <<status, buffer, queue, next, view>>
  BY DEF Subscribe, runs
<1>2. from[c] = 0 /\ queue[c] = <<>> /\ next[c] = 0 /\ view[c] = <<>>
  BY <1>1 DEF ClientInv, Attached, Away, Subscribed
<1>3. CASE current = 0
  <2>1. /\ UNCHANGED <<from, subscribers>>
        /\ cpc'[c] = "off" /\ \A d \in Clients : d # c => cpc'[d] = cpc[d]
    BY <1>3 DEF Subscribe, runs, TypeOK
  <2>2. \A d \in Clients : Own(d)'
    BY <1>1, <2>1, ClientUntouched DEF Subscribed
  <2>3. QED
    BY <2>2 DEF ClientInv, Own
<1>4. CASE current # 0
  <2>1. current \in Runs
    BY <1>4 DEF TypeOK, Runs
  <2>2. /\ subscribers' = [subscribers EXCEPT ![current] = @ \cup {c}]
        /\ from' = [from EXCEPT ![c] = current]
        /\ cpc' = [cpc EXCEPT ![c] = "replay"]
    BY <1>4 DEF Subscribe
  <2>3. /\ from'[c] = current /\ cpc'[c] = "replay"
        /\ \A d \in Clients : d # c => from'[d] = from[d] /\ cpc'[d] = cpc[d]
    BY <2>2 DEF TypeOK
  <2>4. \A r \in Runs :
            subscribers'[r] = IF r = current THEN subscribers[r] \cup {c} ELSE subscribers[r]
    BY <2>1, <2>2 DEF TypeOK
  <2>5. ASSUME NEW d \in Clients \ {c} PROVE Own(d)'
    BY <1>1, <2>3, <2>4, ClientUntouched
  <2>6. Own(c)'
    <3>1. Attached(c)'
      <4>1. \A r \in Runs : c \notin subscribers[r]
        BY <1>2 DEF ClientInv, Attached, Runs
      <4>2. QED
        BY <1>4, <2>3, <2>4, <4>1 DEF Attached, Subscribed
    <3>2. buffer[current] \in Numbers /\ buffer[current] \in Nat
      BY <2>1, ConstantsAssumption DEF TypeOK, Numbers
    <3>3. Away(c)' /\ Cursor(c)'
      BY <1>1, <1>2, <1>4, <2>3, <3>2 DEF Away, Cursor
    <3>4. PICK n \in Numbers : n = buffer[current]
      BY <3>2
    <3>5. Backlog(c, n, FALSE)'
      <4>1. Holds(<<>>, n, n, FALSE)
        BY <3>2, <3>4, HoldsNothing
      <4>2. QED
        BY <1>1, <1>2, <2>3, <3>4, <4>1 DEF Backlog
    <3>6. Queued(c)'
      BY <3>5 DEF Queued
    <3>7. QED
      BY <3>1, <3>3, <3>6 DEF Own
  <2>7. QED
    BY <2>5, <2>6 DEF ClientInv, Own
<1>5. QED
  BY <1>3, <1>4

\* A client that leaves takes nothing with it.
LEMMA LeaveKeepsClients ==
  ASSUME TypeOK, ClientInv, NEW c \in Clients, NEW how \in {"off", "finished"},
         Close(c, how), cpc[c] \in Subscribed => Unsubscribe(c),
         cpc[c] \notin Subscribed => UNCHANGED subscribers,
         UNCHANGED <<status, buffer>>
  PROVE  ClientInv'
<1>1. /\ cpc'[c] = how /\ from'[c] = 0 /\ queue'[c] = <<>> /\ next'[c] = 0 /\ view'[c] = <<>>
      /\ \A d \in Clients : d # c =>
            /\ cpc'[d] = cpc[d] /\ from'[d] = from[d] /\ queue'[d] = queue[d]
            /\ next'[d] = next[d] /\ view'[d] = view[d]
  BY DEF Close, TypeOK
<1>2. \A r \in Runs : subscribers'[r] = subscribers[r] \ {c}
  <2>1. CASE cpc[c] \in Subscribed
    <3>1. from[c] \in Runs /\ subscribers' = [subscribers EXCEPT ![from[c]] = @ \ {c}]
      BY <2>1, Reading DEF Unsubscribe
    <3>2. \A r \in Runs : r # from[c] => c \notin subscribers[r]
      BY DEF ClientInv, Attached
    <3>3. QED
      BY <3>1, <3>2 DEF TypeOK
  <2>2. CASE cpc[c] \notin Subscribed
    <3>1. \A r \in Runs : c \notin subscribers[r]
      BY <2>2 DEF ClientInv, Attached, Runs
    <3>2. QED
      BY <2>2, <3>1 DEF TypeOK
  <2>3. QED
    BY <2>1, <2>2
<1>3. ASSUME NEW d \in Clients \ {c} PROVE Own(d)'
  BY <1>1, <1>2, ClientUntouched
<1>4. Own(c)'
  BY <1>1, <1>2 DEF Own, Attached, Away, Cursor, Queued, Subscribed, Runs
<1>5. QED
  BY <1>3, <1>4 DEF ClientInv, Own

\* A client that reads on, from its run's buffer or from its queue.
LEMMA ReadKeepsClients ==
  ASSUME TypeOK, TaskInv, ClientInv, NEW c \in Clients, Replay(c) \/ Receive(c)
  PROVE  ClientInv'
<1>1. cpc[c] \in Subscribed /\ UNCHANGED <<status, buffer>>
  BY DEF Replay, Receive, Subscribed, runs
<1>2. /\ from[c] \in Runs /\ from[c] # 0
      /\ next[c] \in Nat /\ buffer[from[c]] \in Nat /\ next[c] <= buffer[from[c]]
      /\ Len(view[c]) = next[c]
      /\ queue[c] \in Seq(Items)
  BY <1>1, Reading DEF Runs
<1>3. PICK first \in Numbers, ended \in BOOLEAN : Backlog(c, first, ended)
  BY <1>2 DEF ClientInv, Queued
<1>4. first \in Nat /\ buffer[from[c]] \in Numbers
  BY <1>2, ConstantsAssumption DEF Numbers, TypeOK
<1>5. ASSUME NEW d \in Clients \ {c},
             UNCHANGED <<subscribers, from>>,
             cpc'[d] = cpc[d], queue'[d] = queue[d], next'[d] = next[d], view'[d] = view[d]
      PROVE  Own(d)'
  BY <1>1, <1>5, ClientUntouched
<1>6. ASSUME UNCHANGED <<subscribers, from>>, cpc'[c] \in Subscribed
      PROVE  Attached(c)' /\ Away(c)'
  BY <1>1, <1>2, <1>6 DEF ClientInv, Attached, Away
<1>7. ASSUME NEW n \in Nat, n = next[c], Yield(c, n)
      PROVE  /\ next'[c] = next[c] + 1 /\ Len(view'[c]) = next'[c]
             /\ \A d \in Clients : d # c => next'[d] = next[d] /\ view'[d] = view[d]
  BY <1>2, <1>7 DEF Yield, TypeOK
<1>8. CASE Replay(c) /\ Unsubscribe(c) /\ Close(c, "finished")
  BY <1>1, <1>8, LeaveKeepsClients
<1>9. CASE Replay(c) /\ next[c] < buffer[from[c]] /\ Yield(c, next[c])
           /\ UNCHANGED <<subscribers, evicting, cpc, from, queue>>
  <2>1. /\ next'[c] = next[c] + 1 /\ Len(view'[c]) = next'[c]
        /\ \A d \in Clients : d # c => next'[d] = next[d] /\ view'[d] = view[d]
    BY <1>2, <1>7, <1>9
  <2>2. Cursor(c)'
    BY <1>1, <1>2, <1>9, <2>1 DEF Cursor
  <2>3. Backlog(c, first, ended)'
    BY <1>1, <1>3, <1>9 DEF Backlog, Replay
  <2>4. Own(c)'
    BY <1>1, <1>6, <1>9, <2>2, <2>3 DEF Own, Queued
  <2>5. QED
    BY <1>5, <1>9, <2>1, <2>4 DEF ClientInv, Own
<1>10. CASE Replay(c) /\ next[c] = buffer[from[c]] /\ status[from[c]] = "running"
            /\ cpc' = [cpc EXCEPT ![c] = "live"]
            /\ UNCHANGED <<subscribers, evicting, from, queue, next, view>>
  <2>1. cpc'[c] = "live" /\ \A d \in Clients : d # c => cpc'[d] = cpc[d]
    BY <1>10 DEF TypeOK
  <2>2. Cursor(c)'
    BY <1>1, <1>2, <1>10 DEF Cursor
  <2>3. first <= buffer[from[c]]
    BY <1>3 DEF Backlog, Holds
  <2>4. Backlog(c, first, ended)'
    BY <1>1, <1>3, <1>10, <2>1, <2>3 DEF Backlog
  <2>5. Own(c)'
    BY <1>6, <1>10, <2>1, <2>2, <2>4 DEF Own, Queued, Subscribed
  <2>6. QED
    BY <1>5, <1>10, <2>1, <2>5 DEF ClientInv, Own
<1>11. CASE Receive(c)
  <2>1. /\ UNCHANGED <<subscribers, from, cpc>> /\ cpc[c] = "live"
        /\ queue[c] # <<>> /\ Head(queue[c]) # End
        /\ queue'[c] = Tail(queue[c])
        /\ \A d \in Clients : d # c => queue'[d] = queue[d]
    BY <1>11 DEF Receive, runs, TypeOK
  <2>2. Holds(queue[c], first, buffer[from[c]], ended) /\ first <= next[c]
    BY <1>3, <2>1 DEF Backlog
  <2>3. /\ Head(queue[c]) = first /\ first < buffer[from[c]]
        /\ Holds(Tail(queue[c]), first + 1, buffer[from[c]], ended)
    BY <1>2, <1>4, <2>1, <2>2, TakeEvent
  <2>4. PICK n \in Numbers : n = first + 1
    BY <1>4, <2>3, ConstantsAssumption DEF Numbers
  <2>5. /\ next'[c] \in Nat /\ n <= next'[c] /\ Len(view'[c]) = next'[c]
        /\ next'[c] <= buffer[from[c]]
        /\ \A d \in Clients : d # c => next'[d] = next[d] /\ view'[d] = view[d]
    <3>1. CASE first < next[c]
      BY <1>2, <1>4, <1>11, <2>3, <2>4, <3>1 DEF Receive
    <3>2. CASE first = next[c]
      <4>1. Yield(c, first)
        BY <1>4, <1>11, <2>3, <3>2 DEF Receive
      <4>2. QED
        BY <1>2, <1>4, <1>7, <2>3, <2>4, <3>2, <4>1
    <3>3. QED
      BY <1>2, <1>4, <2>2, <3>1, <3>2
  <2>6. Cursor(c)'
    BY <1>1, <2>1, <2>5 DEF Cursor
  <2>7. Backlog(c, n, ended)'
    BY <1>1, <1>3, <2>1, <2>3, <2>4, <2>5 DEF Backlog
  <2>8. Own(c)'
    BY <1>1, <1>6, <2>1, <2>6, <2>7 DEF Own, Queued
  <2>9. QED
    BY <1>5, <2>1, <2>5, <2>8 DEF ClientInv, Own
<1>12. QED
  BY <1>8, <1>9, <1>10, <1>11 DEF Replay

\* Every step.
LEMMA NextKeepsClients ==
  ASSUME TypeOK, TaskInv, ClientInv, [Next]_vars PROVE ClientInv'
<1>1. CASE UNCHANGED vars \/ Stop
  <2>1. UNCHANGED <<clients, subscribers, status, buffer>>
    BY <1>1 DEF vars, runs, Stop
  <2>2. QED
    BY <2>1, ClientsUntouched
<1>2. ASSUME NEW c \in Clients, Send(c) \/ Resume(c) PROVE ClientInv'
  <2>1. Connect(c) /\ UNCHANGED <<subscribers, status, buffer>>
    BY <1>2 DEF Send, Resume, runs
  <2>2. QED
    BY <2>1, ConnectKeepsClients
<1>3. ASSUME NEW c \in Clients, ReceiveEnd(c) \/ Disconnect(c) PROVE ClientInv'
  <2>1. CASE ReceiveEnd(c)
    BY <2>1, LeaveKeepsClients DEF ReceiveEnd, Subscribed
  <2>2. CASE Disconnect(c)
    <3>1. /\ Close(c, "off") /\ UNCHANGED <<status, buffer>>
          /\ cpc[c] \in Subscribed => Unsubscribe(c)
          /\ cpc[c] \notin Subscribed => UNCHANGED subscribers
      BY <2>2 DEF Disconnect, Subscribed
    <3>2. QED
      BY <3>1, LeaveKeepsClients
  <2>3. QED
    BY <1>3, <2>1, <2>2
<1>4. QED
  BY <1>1, <1>2, <1>3, TaskKeepsClients, SubscribeKeepsClients, ReadKeepsClients
     DEF Next, ClientStep

-----------------------------------------------------------------------------
(***************************************************************************)
(* Eviction.                                                               *)
(***************************************************************************)
\* A subscriber that leaves re-arms the timer, if it was the last one.
LEMMA LeaveKeepsEviction ==
  ASSUME TypeOK, EvictionPending, NEW c \in Clients, from[c] \in Runs,
         Unsubscribe(c), UNCHANGED <<registry, status, buffer, tasks, saved>>
  PROVE  EvictionPending'
<1> SUFFICES ASSUME NEW r \in Runs, current = r, status[r] # "running",
                    subscribers'[r] = {}
             PROVE  evicting'[r]
  BY DEF EvictionPending, registry
<1>1. evicting' = evicting \/ ScheduleEvict
  BY DEF Unsubscribe
<1>2. CASE from[c] = r
  <2>1. subscribers[r] \subseteq {c}
    BY <1>2 DEF Unsubscribe, TypeOK
  <2>2. ScheduleEvict
    BY <1>2, <2>1 DEF Unsubscribe
  <2>3. QED
    BY <2>2 DEF ScheduleEvict
<1>3. CASE from[c] # r
  <2>1. subscribers[r] = {}
    BY <1>3 DEF Unsubscribe, TypeOK
  <2>2. evicting[r]
    BY <2>1 DEF EvictionPending
  <2>3. QED
    BY <1>1, <2>2 DEF ScheduleEvict
<1>4. QED
  BY <1>2, <1>3

\* Every step keeps an eviction pending.
LEMMA NextKeepsEviction == ASSUME IInv, [Next]_vars PROVE EvictionPending'
<1> USE DEF IInv
<1>1. ASSUME UNCHANGED <<current, status, subscribers, evicting>>
      PROVE  EvictionPending'
  BY <1>1 DEF EvictionPending
<1>2. CASE UNCHANGED vars \/ Stop
  BY <1>1, <1>2 DEF vars, registry, runs, Stop
<1>3. ASSUME NEW c \in Clients, Send(c) PROVE EvictionPending'
  <2>1. sent + 1 \in Runs /\ sent < sent + 1
    BY <1>3, ConstantsAssumption DEF Send, TypeOK, Runs
  <2>2. status[sent + 1] = "running"
    BY <2>1 DEF TaskInv, Blank, Running
  <2>3. current' = sent + 1 /\ status' = status
    BY <1>3 DEF Send
  <2>4. QED
    BY <2>2, <2>3 DEF EvictionPending
<1>4. ASSUME NEW c \in Clients, Resume(c) \/ Receive(c) PROVE EvictionPending'
  BY <1>1, <1>4 DEF Resume, Receive, registry, runs
<1>5. ASSUME NEW c \in Clients, Subscribe(c) PROVE EvictionPending'
  <2>1. UNCHANGED <<current, status>>
    BY <1>5 DEF Subscribe, registry, runs
  <2>2. CASE current = 0
    BY <1>1, <1>5, <2>1, <2>2 DEF Subscribe, runs
  <2>3. CASE current # 0
    <3>1. current \in Runs
      BY <2>3 DEF TypeOK, Runs
    <3>2. subscribers' = [subscribers EXCEPT ![current] = @ \cup {c}]
      BY <1>5, <2>3 DEF Subscribe
    <3>3. c \in subscribers'[current]
      BY <3>1, <3>2 DEF TypeOK
    <3>4. QED
      BY <2>1, <3>1, <3>3 DEF EvictionPending
  <2>4. QED
    BY <2>2, <2>3
<1>6. ASSUME NEW c \in Clients, Replay(c) \/ ReceiveEnd(c) \/ Disconnect(c)
      PROVE  EvictionPending'
  <2>1. UNCHANGED <<registry, status, buffer, tasks, saved>>
    BY <1>6 DEF Replay, ReceiveEnd, Disconnect
  <2>2. CASE UNCHANGED <<subscribers, evicting>>
    BY <1>1, <2>1, <2>2 DEF registry
  <2>3. CASE Unsubscribe(c) /\ cpc[c] \in Subscribed
    BY <2>1, <2>3, LeaveKeepsEviction, Reading
  <2>4. QED
    BY <1>6, <2>2, <2>3 DEF Replay, ReceiveEnd, Disconnect, Subscribed
<1>7. ASSUME NEW r \in Runs, TaskStep(r) PROVE EvictionPending'
  <2>1. CASE (Advance(r) /\ ~Unwound(r)) \/ Save(r) \/ Publish(r)
    BY <1>1, <2>1 DEF Advance, Begin, Wait, Interrupt, Save, Publish, registry, runs
  <2>2. CASE \E result, items : Over(r, result, items)
    <3>1. UNCHANGED <<current, subscribers>> /\ ScheduleEvict
      BY <2>2 DEF Over, registry
    <3>2. \A k \in Runs : current = k => evicting'[k]
      BY <3>1 DEF ScheduleEvict
    <3>3. QED
      BY <3>1, <3>2 DEF EvictionPending
  <2>3. QED
    BY <1>7, <2>1, <2>2 DEF TaskStep, Advance, Complete, Unwound, Fail
<1>8. ASSUME NEW r \in Runs, Evict(r) PROVE EvictionPending'
  <2>1. /\ UNCHANGED <<status, subscribers>>
        /\ \A k \in Runs : k # r => (evicting'[k] <=> evicting[k])
        /\ current' = current \/ current' = 0
        /\ current' = r => ~(status[r] # "running" /\ subscribers[r] = {})
    BY <1>8 DEF Evict, Runs, TypeOK
  <2>2. QED
    BY <2>1 DEF EvictionPending, Runs
<1>9. QED
  BY <1>2, <1>3, <1>4, <1>5, <1>6, <1>7, <1>8 DEF Next, ClientStep

-----------------------------------------------------------------------------
\* The invariant holds before the first request.
LEMMA InitInv == Init => IInv
<1> SUFFICES ASSUME Init PROVE IInv
  OBVIOUS
<1>1. EvictionPending
  BY DEF Init, EvictionPending, Runs
<1>2. QED
  BY <1>1, InitTyped, InitTasks, InitClients DEF IInv

\* Every step keeps it.
LEMMA NextInv == IInv /\ [Next]_vars => IInv'
BY NextTyped, NextKeepsTasks, NextKeepsClients, NextKeepsEviction DEF IInv

\* It is an invariant of every behaviour, whatever the constants are.
THEOREM Invariance == Spec => []IInv
BY InitInv, NextInv, PTL DEF Spec

\* Whatever requests, tasks and timers do, every variable keeps its type; buffers
\* hold at most two events more than a generator yields.
THEOREM TypeCorrect == Spec => []TypeOK
<1>1. IInv => TypeOK
  BY DEF IInv
<1>2. QED
  BY <1>1, Invariance, PTL

\* A task writes to the run it was started for, and to no other.
THEOREM TasksKeepToTheirRuns == Spec => []WritesOwnRun
<1>1. IInv => WritesOwnRun
  BY DEF IInv, TaskInv, OnItsOwn, WritesOwnRun
<1>2. QED
  BY <1>1, Invariance, PTL

\* A finished run that nobody reads is about to be freed.
THEOREM FinishedRunsAreFreed == Spec => []EvictionPending
<1>1. IInv => EvictionPending
  BY DEF IInv
<1>2. QED
  BY <1>1, Invariance, PTL

\* A subscriber that waits has received all there is and waits for a task that is
\* alive, or for a run that was cancelled before its generator began.
THEOREM WaitersAreServed == Spec => []NoLostWakeup
<1>1. IInv => NoLostWakeup
  <2> SUFFICES ASSUME IInv, NEW c \in Clients, cpc[c] = "live", queue[c] = <<>>
               PROVE  /\ next[c] = buffer[from[c]]
                      /\ status[from[c]] = "running"
                      /\ Alive(from[c]) \/ buffer[from[c]] = 0
    BY DEF NoLostWakeup
  <2>1. from[c] # 0 /\ from[c] \in Runs
    BY ConstantsAssumption DEF IInv, ClientInv, Attached, Subscribed, TypeOK, Runs
  <2>2. PICK first \in Numbers, ended \in BOOLEAN : Backlog(c, first, ended)
    BY <2>1 DEF IInv, ClientInv, Queued
  <2>3. buffer[from[c]] \in Nat /\ first \in Nat /\ next[c] \in Nat
    <3>1. buffer[from[c]] \in Numbers /\ next[c] \in Numbers
      BY <2>1 DEF IInv, TypeOK
    <3>2. QED
      BY <3>1, ConstantsAssumption DEF Numbers
  <2>4. ended = FALSE /\ first = buffer[from[c]]
    BY <2>2, <2>3 DEF Backlog, Holds
  <2>5. status[from[c]] = "running" /\ first <= next[c]
    BY <2>2, <2>4 DEF Backlog
  <2>6. next[c] = buffer[from[c]]
    BY <2>1, <2>3, <2>4, <2>5 DEF IInv, ClientInv, Cursor
  <2>7. Alive(from[c]) \/ buffer[from[c]] = 0
    BY <2>1, <2>5 DEF IInv, TaskInv, Running, Alive
  <2>8. QED
    BY <2>5, <2>6, <2>7
<1>2. QED
  BY <1>1, Invariance, PTL

-----------------------------------------------------------------------------
(***************************************************************************)
(* The order of two messages in a row.  The newest run is the registered   *)
(* one until it is evicted, which needs its end.  A run that has not begun *)
(* waits for the one before it, if that was alive when it was sent, and    *)
(* goes on only when that is over.                                         *)
(***************************************************************************)
Newest ==
    /\ current \in {0, sent}
    /\ current # sent => phase[sent] = "over"
Started(r) == r <= sent => phase[r] # "none"
After(r) ==
    /\ phase[r + 1] \in {"new", "waiting"} => prev[r + 1] = r \/ phase[r] = "over"
    /\ phase[r + 1] \in {"draining", "saved", "unwinding"} => phase[r] = "over"
    /\ saved = r + 1 => phase[r] = "over"

OrderInv ==
    /\ Newest
    /\ \A r \in Runs : Started(r) /\ (r + 1 \in Runs => After(r))

\* A task that goes from a phase to a later one, and may have saved.
LEMMA MoveKeepsOrder ==
  ASSUME TypeOK, TaskInv, OrderInv, NEW r \in Runs, NEW p \in Phase \ {"none"},
         Goto(r, p), phase[r] \notin {"none", "over"},
         p # "new", p = "waiting" => phase[r] = "new",
         p \in {"draining", "saved", "unwinding"} /\ r - 1 \in Runs =>
             phase[r - 1] = "over",
         saved' = saved \/ (saved' = r /\ phase[r] \in {"draining", "saved", "unwinding"}),
         UNCHANGED <<registry, prev>>
  PROVE  OrderInv'
<1>1. phase' = [phase EXCEPT ![r] = p]
  BY DEF Goto
<1>2. Newest'
  BY <1>1 DEF OrderInv, Newest, TypeOK, registry, Runs
<1>3. ASSUME NEW k \in Runs PROVE Started(k)'
  BY <1>1, <1>3 DEF OrderInv, Started, TypeOK, registry
<1>4. ASSUME NEW k \in Runs, k + 1 \in Runs PROVE After(k)'
  <2>1. After(k) /\ (phase[k] = "over" => phase'[k] = "over")
    BY <1>1, <1>4 DEF OrderInv, TypeOK
  <2>2. CASE k + 1 = r
    <3>1. k = r - 1
      BY <2>2 DEF Runs
    <3>2. phase'[k + 1] = p
      BY <1>1, <2>2 DEF TypeOK
    <3>3. QED
      BY <2>1, <2>2, <3>1, <3>2 DEF After
  <2>3. CASE k + 1 # r
    <3>1. phase'[k + 1] = phase[k + 1]
      BY <1>1, <1>4, <2>3 DEF TypeOK
    <3>2. saved' = k + 1 => saved = k + 1
      BY <2>3
    <3>3. QED
      BY <2>1, <3>1, <3>2 DEF After
  <2>4. QED
    BY <2>2, <2>3
<1>5. QED
  BY <1>2, <1>3, <1>4 DEF OrderInv

\* A run that has begun to drain finds the one before it at its end.
LEMMA TaskKeepsOrder ==
  ASSUME TypeOK, TaskInv, OrderInv, NEW r \in Runs, TaskStep(r)
  PROVE  OrderInv' /\ (saved' = saved \/ (saved' = r /\ saved # r + 1))
<1> USE DEF Phase
<1>0. r - 1 \in Runs => After(r - 1) /\ (r - 1) + 1 = r /\ Started(r - 1)
  BY DEF OrderInv, Runs
<1>00. r + 1 \in Runs => After(r)
  BY DEF OrderInv
<1>01. saved # r + 1 \/ phase[r] = "over"
  BY <1>00 DEF After, TypeOK, Runs
<1>02. phase[r] # "none" => r <= sent
  BY DEF TaskInv, Blank, TypeOK, Runs
<1>1. CASE Begin(r)
  <2>1. CASE cancelled[r] /\ Goto(r, "over")
    BY <1>1, <2>1, MoveKeepsOrder DEF Begin, registry
  <2>2. CASE ~cancelled[r] /\ Goto(r, IF prev[r] # 0 /\ Alive(prev[r]) THEN "waiting"
                                      ELSE "draining")
    <3>1. CASE prev[r] # 0 /\ Alive(prev[r])
      BY <1>1, <2>2, <3>1, MoveKeepsOrder DEF Begin, registry
    <3>2. CASE ~(prev[r] # 0 /\ Alive(prev[r]))
      <4>1. ASSUME r - 1 \in Runs PROVE phase[r - 1] = "over"
        BY <1>0, <1>02, <1>1, <3>2, <4>1
        DEF Begin, After, Alive, Started, TypeOK, Runs
      <4>2. QED
        BY <1>1, <2>2, <3>2, <4>1, MoveKeepsOrder DEF Begin, registry
    <3>3. QED
      BY <3>1, <3>2
  <2>3. QED
    BY <1>1, <2>1, <2>2 DEF Begin
<1>2. CASE Wait(r)
  <2>1. CASE Goto(r, "over")
    BY <1>2, <2>1, MoveKeepsOrder DEF Wait
  <2>2. CASE ~Alive(prev[r]) /\ Goto(r, "draining")
    <3>1. ASSUME r - 1 \in Runs PROVE phase[r - 1] = "over"
      BY <1>0, <1>02, <1>2, <2>2, <3>1
      DEF Wait, After, Alive, Started, TypeOK, Runs
    <3>2. QED
      BY <1>2, <2>2, <3>1, MoveKeepsOrder DEF Wait
  <2>3. QED
    BY <1>2, <2>1, <2>2 DEF Wait
<1>3. CASE Publish(r)
  BY <1>3 DEF Publish, OrderInv, Newest, Started, After, registry, tasks
<1>4. CASE Save(r)
  BY <1>0, <1>01, <1>4, MoveKeepsOrder DEF Save, After
<1>5. CASE Complete(r)
  BY <1>5, MoveKeepsOrder DEF Complete, Pulling, Over
<1>6. CASE Interrupt(r)
  BY <1>0, <1>6, MoveKeepsOrder DEF Interrupt, After
<1>7. CASE Unwound(r)
  BY <1>01, <1>7, MoveKeepsOrder DEF Unwound, Over
<1>8. CASE Fail(r)
  BY <1>8, MoveKeepsOrder DEF Fail, Pulling, Over
<1>9. QED
  BY <1>1, <1>2, <1>3, <1>4, <1>5, <1>6, <1>7, <1>8 DEF TaskStep, Advance

\* Every step keeps the order, and a run that saves is not one whose successor
\* saved last.
LEMMA NextKeepsOrder ==
  ASSUME TypeOK, TaskInv, OrderInv, [Next]_vars
  PROVE  /\ OrderInv'
         /\ saved' = saved \/ \E r \in Runs : saved' = r /\ saved # r + 1
<1>1. ASSUME UNCHANGED <<registry, phase, prev, saved>> PROVE OrderInv'
  BY <1>1 DEF OrderInv, Newest, Started, After, registry
<1>2. ASSUME NEW c \in Clients, Send(c) PROVE OrderInv' /\ saved' = saved
  <2>1. /\ sent \in Nat /\ sent + 1 \in Runs
        /\ sent' = sent + 1 /\ current' = sent + 1
        /\ phase' = [phase EXCEPT ![sent + 1] = "new"]
        /\ saved' = saved
    BY <1>2, ConstantsAssumption DEF Send, Goto, TypeOK, Runs
  <2>2. prev' = [prev EXCEPT ![sent + 1] =
                    IF current # 0 /\ Alive(current) THEN current ELSE 0]
    BY <1>2 DEF Send
  <2>3. Newest'
    BY <2>1 DEF Newest
  <2>4. ASSUME NEW k \in Runs PROVE Started(k)'
    BY <2>1, <2>4 DEF OrderInv, Started, TypeOK, Runs
  <2>5. ASSUME NEW k \in Runs, k + 1 \in Runs PROVE After(k)'
    <3>1. CASE k = sent
      <4>1. phase[k] # "none" /\ phase'[k] = phase[k]
        BY <2>1, <3>1 DEF OrderInv, Started, TypeOK, Runs
      <4>2. prev'[k + 1] = k \/ phase[k] = "over"
        BY <2>1, <2>2, <3>1, <4>1 DEF OrderInv, Newest, Alive, TypeOK, Runs
      <4>3. phase'[k + 1] = "new"
        BY <2>1, <3>1 DEF TypeOK
      <4>4. saved = k + 1 => phase[k] = "over"
        BY <2>5 DEF OrderInv, After
      <4>5. QED
        BY <2>1, <4>1, <4>2, <4>3, <4>4 DEF After
    <3>2. CASE k # sent
      <4>1. phase'[k + 1] = phase[k + 1] /\ prev'[k + 1] = prev[k + 1]
        BY <2>1, <2>2, <3>2, <2>5 DEF TypeOK, Runs
      <4>2. phase[k] = "over" => phase'[k] = "over"
        BY <2>1 DEF TaskInv, Blank, TypeOK, Runs
      <4>3. QED
        BY <2>1, <2>5, <4>1, <4>2 DEF OrderInv, After
    <3>3. QED
      BY <3>1, <3>2
  <2>6. QED
    BY <2>1, <2>3, <2>4, <2>5 DEF OrderInv
<1>3. ASSUME NEW r \in Runs, Evict(r) PROVE OrderInv' /\ saved' = saved
  <2>1. current' = current \/ (current = r /\ current' = 0 /\ phase[r] = "over")
    BY <1>3 DEF Evict, TaskInv, Running
  <2>2. UNCHANGED <<sent, phase, prev, saved>>
    BY <1>3 DEF Evict, tasks
  <2>3. Newest'
    BY <2>1, <2>2 DEF OrderInv, Newest, Runs
  <2>4. QED
    BY <2>2, <2>3 DEF OrderInv, Started, After
<1>4. ASSUME NEW c \in Clients, Resume(c) \/ ClientStep(c) \/ Disconnect(c)
      PROVE  UNCHANGED <<registry, phase, prev, saved>>
  BY <1>4
  DEF Resume, ClientStep, Disconnect, Subscribe, Replay, Receive, ReceiveEnd, tasks
<1>5. CASE Stop
  BY <1>1, <1>5 DEF Stop
<1>6. CASE UNCHANGED vars
  BY <1>1, <1>6 DEF vars, tasks
<1>7. QED
  BY <1>1, <1>2, <1>3, <1>4, <1>5, <1>6, TaskKeepsOrder
  DEF Next, Stop

\* Of two messages in a row the answers are saved in the order of the messages,
\* however often either run is stopped.
THEOREM NeighboursSaveInOrder == Spec => SavesFollow
<1>1. Init => OrderInv
  BY ConstantsAssumption DEF Init, OrderInv, Newest, Started, After, Runs
<1>2. IInv /\ OrderInv /\ [Next]_vars => OrderInv'
  BY NextKeepsOrder DEF IInv
<1>3. IInv /\ OrderInv /\ [Next]_vars =>
        [\A r \in Runs : saved' = r /\ saved # r => saved # r + 1]_saved
  BY NextKeepsOrder DEF IInv
<1>4. QED
  BY <1>1, <1>2, <1>3, Invariance, PTL DEF Spec, SavesFollow

-----------------------------------------------------------------------------
(***************************************************************************)
(* The abstract log.                                                       *)
(***************************************************************************)
Ended == [r \in Runs |-> status[r] # "running"]
Standing(c) == IF cpc[c] \in Subscribed THEN "reading"
               ELSE IF cpc[c] = "finished" THEN "complete"
               ELSE "away"
Standings == [c \in Clients |-> Standing(c)]

\* A task adds to its run, or ends it.
LEMMA TaskExtends ==
  ASSUME IInv, NEW r \in Runs, TaskStep(r) \/ Evict(r)
  PROVE  Log!Extend(r) \/ UNCHANGED <<buffer, Ended, Standings, from, view>>
<1> USE DEF IInv
<1>1. UNCHANGED <<cpc, from, view>>
  BY DEF TaskStep, Advance, Begin, Wait, Interrupt, Unwound, Publish, Save, Complete,
         Fail, Over, Evict, clients
<1>2. UNCHANGED Standings
  BY <1>1 DEF Standings, Standing
<1>3. CASE UNCHANGED <<buffer, status>>
  BY <1>1, <1>2, <1>3 DEF Ended
<1>4. ASSUME phase[r] \in {"draining", "saved", "unwinding"},
             \E n \in {0, 1, 2} : buffer' = [buffer EXCEPT ![r] = @ + n],
             \E result : status' = [status EXCEPT ![r] = result]
      PROVE  Log!Extend(r)
  <2>1. ~Ended[r]
    BY <1>4, WritesWhereItShould DEF Ended
  <2>2. PICK result : status' = [status EXCEPT ![r] = result]
    BY <1>4
  <2>3. Ended' = [Ended EXCEPT ![r] = (result # "running")]
    BY <2>2 DEF Ended, TypeOK
  <2>4. \E b \in BOOLEAN : Ended' = [Ended EXCEPT ![r] = b]
    BY <2>3
  <2>5. QED
    BY <1>1, <1>2, <1>4, <2>1, <2>4 DEF Log!Extend, Ended, Standings, Standing
<1>5. CASE Publish(r)
  <2>1. phase[r] \in {"draining", "saved", "unwinding"}
    BY <1>5 DEF Publish, Pulling
  <2>2. run[r] = r /\ status[r] = "running"
    BY <2>1, WritesWhereItShould
  <2>3. /\ buffer' = [buffer EXCEPT ![r] = @ + 1]
        /\ status' = [status EXCEPT ![r] = "running"]
    BY <1>5, <2>2 DEF Publish, TypeOK
  <2>4. QED
    BY <1>4, <2>1, <2>3
<1>6. CASE Complete(r) \/ Unwound(r)
  <2>1. phase[r] \in {"draining", "saved", "unwinding"}
    BY <1>6 DEF Complete, Unwound, Pulling
  <2>2. run[r] = r
    BY <2>1, WritesWhereItShould
  <2>3. PICK result \in {"done", "stopped"} : Over(r, result, <<>>)
    BY <1>6 DEF Complete, Unwound
  <2>4. /\ buffer' = [buffer EXCEPT ![r] = @ + 0]
        /\ status' = [status EXCEPT ![r] = result]
    BY <1>6, <2>1, <2>2, <2>3, WritesWhereItShould
       DEF Complete, Unwound, Over, TypeOK
  <2>5. QED
    BY <1>4, <2>1, <2>4
<1>7. CASE Fail(r)
  <2>1. phase[r] \in {"draining", "saved", "unwinding"}
    BY <1>7 DEF Fail, Pulling
  <2>2. run[r] = r
    BY <2>1, WritesWhereItShould
  <2>3. /\ buffer' = [buffer EXCEPT ![r] = @ + 2]
        /\ status' = [status EXCEPT ![r] = "error"]
    BY <1>7, <2>2 DEF Fail, Over
  <2>4. QED
    BY <1>4, <2>1, <2>3
<1>8. QED
  BY <1>3, <1>5, <1>6, <1>7
     DEF TaskStep, Advance, Begin, Wait, Interrupt, Save, Evict, runs

\* Where a client stands changes with its program counter only.
LEMMA StandingChanges ==
  ASSUME TypeOK, NEW c \in Clients, NEW at, cpc' = [cpc EXCEPT ![c] = at]
  PROVE  Standings' = [Standings EXCEPT ![c] = IF at \in Subscribed THEN "reading"
                                               ELSE IF at = "finished" THEN "complete"
                                               ELSE "away"]
<1>1. cpc'[c] = at /\ \A d \in Clients : d # c => cpc'[d] = cpc[d]
  BY DEF TypeOK
<1>2. QED
  BY <1>1 DEF Standings, Standing

\* A client that is neither a subscriber nor at its end is away.
LEMMA GoesAway ==
  ASSUME TypeOK, NEW c \in Clients, NEW at \in {"off", "connecting"},
         cpc' = [cpc EXCEPT ![c] = at]
  PROVE  Standings' = [Standings EXCEPT ![c] = "away"]
<1>1. at \notin Subscribed /\ at # "finished"
  BY DEF Subscribed
<1>2. QED
  BY <1>1, StandingChanges

\* A stream that is closed, by either side.
LEMMA CloseMaps ==
  ASSUME IInv, NEW c \in Clients, NEW how \in {"off", "finished"}, Close(c, how),
         UNCHANGED <<status, buffer>>
  PROVE  Log!Close(c, IF how = "off" THEN "away" ELSE "complete")
<1>1. Standings' = [Standings EXCEPT ![c] = IF how = "off" THEN "away" ELSE "complete"]
  <2>1. CASE how = "off"
    BY <2>1, StandingChanges DEF Close, IInv, Subscribed
  <2>2. CASE how = "finished"
    BY <2>2, StandingChanges DEF Close, IInv, Subscribed
  <2>3. QED
    BY <2>1, <2>2
<1>2. QED
  BY <1>1 DEF Log!Close, Close, Standings, Standing

\* A client that is given an event is given the next one of its run.
LEMMA YieldMaps ==
  ASSUME IInv, NEW c \in Clients, cpc[c] \in Subscribed, next[c] < buffer[from[c]],
         Yield(c, next[c]), UNCHANGED <<status, buffer, cpc, from>>
  PROVE  Log!Read(c)
<1>1. from[c] \in Runs /\ Len(view[c]) = next[c]
  BY Reading DEF IInv
<1>2. view' = [view EXCEPT ![c] = Append(@, Len(@))]
  BY <1>1 DEF Yield
<1>3. Standings[c] = "reading" /\ UNCHANGED <<Standings, Ended>>
  BY DEF Standings, Standing, Ended
<1>4. QED
  BY <1>1, <1>2, <1>3 DEF Log!Read, Standings, Standing, Ended

\* A client that has reached the end of its run has read all of it.
LEMMA FinishMaps ==
  ASSUME IInv, NEW c \in Clients, cpc[c] \in Subscribed, next[c] = buffer[from[c]],
         status[from[c]] # "running", Close(c, "finished"), UNCHANGED <<status, buffer>>
  PROVE  Log!Finish(c)
<1>1. from[c] \in Runs /\ Len(view[c]) = next[c]
  BY Reading DEF IInv
<1>2. Standings[c] = "reading" /\ Ended[from[c]]
  BY <1>1 DEF Standings, Standing, Ended
<1>3. Log!Close(c, "complete")
  BY CloseMaps
<1>4. QED
  BY <1>1, <1>2, <1>3 DEF Log!Finish, Standings, Standing, Ended

\* The steps of a client are steps of the abstract client, or change nothing of it.
LEMMA ClientFollowsLog ==
  ASSUME IInv, NEW c \in Clients,
         Send(c) \/ Resume(c) \/ ClientStep(c) \/ Disconnect(c)
  PROVE  \/ Log!Open(c) \/ Log!Read(c) \/ Log!Finish(c) \/ Log!Leave(c)
         \/ UNCHANGED <<buffer, Ended, Standings, from, view>>
<1> USE DEF IInv
<1>1. CASE Send(c) \/ Resume(c)
  <2>1. Connect(c) /\ UNCHANGED <<status, buffer>>
    BY <1>1 DEF Send, Resume, runs
  <2>2. from[c] = 0 /\ view[c] = <<>>
    BY <2>1 DEF Connect, ClientInv, Attached, Away, Subscribed
  <2>3. Standings' = [Standings EXCEPT ![c] = "away"]
    BY <2>1, GoesAway DEF Connect
  <2>4. from' = [from EXCEPT ![c] = 0] /\ view' = [view EXCEPT ![c] = <<>>]
    BY <2>1, <2>2 DEF Connect, TypeOK
  <2>5. Log!Leave(c)
    BY <2>1, <2>3, <2>4 DEF Log!Leave, Log!Close, Standings, Standing
  <2>6. QED
    BY <2>5
<1>2. CASE Subscribe(c)
  <2>1. cpc[c] = "connecting" /\ UNCHANGED <<status, buffer, view>>
    BY <1>2 DEF Subscribe, runs
  <2>2. Standings[c] = "away"
    BY <2>1 DEF Standings, Standing, Subscribed
  <2>3. CASE current = 0
    <3>1. UNCHANGED from /\ cpc' = [cpc EXCEPT ![c] = "off"]
      BY <1>2, <2>3 DEF Subscribe
    <3>2. Standings' = [Standings EXCEPT ![c] = "away"]
      BY <3>1, GoesAway
    <3>3. UNCHANGED Standings
      BY <2>2, <3>2 DEF Standings
    <3>4. QED
      BY <2>1, <3>1, <3>3 DEF Ended
  <2>4. CASE current # 0
    <3>1. /\ current \in Runs /\ from' = [from EXCEPT ![c] = current]
          /\ cpc' = [cpc EXCEPT ![c] = "replay"]
      BY <1>2, <2>4 DEF Subscribe, TypeOK, Runs
    <3>2. Standings' = [Standings EXCEPT ![c] = "reading"]
      BY <3>1, StandingChanges DEF Subscribed
    <3>3. Log!Open(c)
      BY <2>1, <2>2, <3>1, <3>2 DEF Log!Open, Standings, Standing
    <3>4. QED
      BY <3>3
  <2>5. QED
    BY <2>3, <2>4
<1>3. CASE Replay(c)
  <2>1. cpc[c] \in Subscribed /\ UNCHANGED <<status, buffer>>
    BY <1>3 DEF Replay, Subscribed
  <2>2. CASE next[c] < buffer[from[c]] /\ Yield(c, next[c]) /\ UNCHANGED <<cpc, from>>
    BY <2>1, <2>2, YieldMaps
  <2>3. CASE next[c] = buffer[from[c]] /\ status[from[c]] # "running"
             /\ Close(c, "finished")
    BY <2>1, <2>3, FinishMaps
  <2>4. CASE cpc' = [cpc EXCEPT ![c] = "live"] /\ UNCHANGED <<from, view>>
    <3>1. Standings' = [Standings EXCEPT ![c] = "reading"]
      BY <2>4, StandingChanges DEF Subscribed
    <3>2. UNCHANGED Standings
      BY <2>1, <3>1 DEF Standings, Standing
    <3>3. QED
      BY <2>1, <2>4, <3>2 DEF Ended
  <2>5. QED
    BY <1>3, <2>2, <2>3, <2>4 DEF Replay
<1>4. CASE Receive(c) \/ ReceiveEnd(c)
  <2>1. /\ cpc[c] = "live" /\ cpc[c] \in Subscribed
        /\ queue[c] # <<>> /\ UNCHANGED <<status, buffer>>
    BY <1>4 DEF Receive, ReceiveEnd, Subscribed, runs
  <2>2. /\ from[c] \in Runs /\ from[c] # 0 /\ queue[c] \in Seq(Items)
        /\ next[c] \in Nat /\ buffer[from[c]] \in Nat /\ next[c] <= buffer[from[c]]
        /\ buffer[from[c]] \in Numbers
    BY <2>1, Reading DEF Runs, TypeOK
  <2>3. PICK first \in Numbers, ended \in BOOLEAN : Backlog(c, first, ended)
    BY <2>2 DEF ClientInv, Queued
  <2>4. /\ first \in Nat /\ first <= next[c]
        /\ Holds(queue[c], first, buffer[from[c]], ended)
        /\ ended => status[from[c]] # "running"
    BY <2>1, <2>3, ConstantsAssumption DEF Backlog, Numbers
  <2>5. CASE Receive(c)
    <3>1. Head(queue[c]) = first /\ first < buffer[from[c]]
      BY <2>1, <2>2, <2>4, <2>5, TakeEvent DEF Receive
    <3>2. UNCHANGED <<cpc, from>>
      BY <2>5 DEF Receive
    <3>3. CASE first = next[c]
      <4>1. Yield(c, next[c])
        BY <2>2, <2>5, <3>1, <3>3 DEF Receive
      <4>2. QED
        BY <2>1, <3>1, <3>2, <3>3, <4>1, YieldMaps
    <3>4. CASE first < next[c]
      <4>1. UNCHANGED view
        BY <2>2, <2>4, <2>5, <3>1, <3>4 DEF Receive
      <4>2. QED
        BY <2>1, <3>2, <4>1 DEF Ended, Standings, Standing
    <3>5. QED
      BY <2>2, <2>4, <3>3, <3>4
  <2>6. CASE ReceiveEnd(c)
    <3>1. first = buffer[from[c]] /\ ended
      BY <2>1, <2>2, <2>4, <2>6, TakeEnd DEF ReceiveEnd
    <3>2. next[c] = buffer[from[c]] /\ status[from[c]] # "running"
      BY <2>2, <2>4, <3>1
    <3>3. Close(c, "finished")
      BY <2>6 DEF ReceiveEnd
    <3>4. QED
      BY <2>1, <3>2, <3>3, FinishMaps
  <2>7. QED
    BY <1>4, <2>5, <2>6
<1>5. CASE Disconnect(c)
  <2>1. Close(c, "off") /\ UNCHANGED <<status, buffer>>
    BY <1>5 DEF Disconnect
  <2>2. Log!Close(c, "away")
    BY <2>1, CloseMaps
  <2>3. QED
    BY <2>2 DEF Log!Leave
<1>6. QED
  BY <1>1, <1>2, <1>3, <1>4, <1>5 DEF ClientStep

\* Every subscriber is served a replayable log: from the first event of its run on,
\* each event once and in order, and an end only when nothing is left to read.
THEOREM LogIsImplemented == Spec => LogSpec
<1>1. Init => Log!Init
  <2> SUFFICES ASSUME Init PROVE Log!Init
    OBVIOUS
  <2>1. Standings = [c \in Clients |-> "away"] /\ Ended = [r \in Runs |-> FALSE]
    BY DEF Init, Standings, Standing, Ended, Subscribed
  <2>2. QED
    BY <2>1 DEF Init, Log!Init, Standings, Standing, Ended
<1>2. IInv /\ [Next]_vars
        => [Log!Next]_<<buffer, Ended, Standings, from, view>>
  <2> SUFFICES ASSUME IInv, [Next]_vars
               PROVE  Log!Next \/ UNCHANGED <<buffer, Ended, Standings, from, view>>
    OBVIOUS
  <2>1. CASE UNCHANGED vars \/ Stop
    BY <2>1 DEF vars, runs, clients, Stop, Ended, Standings, Standing
  <2>2. ASSUME NEW r \in Runs, TaskStep(r) \/ Evict(r)
        PROVE  Log!Next \/ UNCHANGED <<buffer, Ended, Standings, from, view>>
    BY <2>2, TaskExtends DEF Log!Next
  <2>3. ASSUME NEW c \in Clients, Send(c) \/ Resume(c) \/ ClientStep(c) \/ Disconnect(c)
        PROVE  Log!Next \/ UNCHANGED <<buffer, Ended, Standings, from, view>>
    BY <2>3, ClientFollowsLog DEF Log!Next
  <2>4. QED
    BY <2>1, <2>2, <2>3 DEF Next
<1>3. Spec => []IInv
  BY Invariance
<1>4. Spec => Log!Init /\ [][Log!Next]_<<buffer, Ended, Standings, from, view>>
  BY <1>1, <1>2, <1>3, PTL DEF Spec
<1>5. QED
  BY <1>4, PTL DEF LogSpec, Log!Spec, Ended, Standings, Standing
=============================================================================
