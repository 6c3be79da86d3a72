--------------------------- MODULE MainLoopsProofs ---------------------------
(***************************************************************************)
(* The main loops of any number of players, with buses of any length.      *)
(***************************************************************************)
EXTENDS MainLoops, TLAPS

Ending == {"join", "null", "freed"}

\* The flag of init_gst is set after gst_init has returned.
InitInv ==
  /\ gst_inited => gstReady
  /\ \A p \in Players : pc[p] = "flag" => gstReady
  /\ InitedBeforeUse

\* QUIT is posted by the destructor only, so it is found on the bus, or in the hand
\* of a thread, or has ended a loop, only of a player that is being destroyed.  The
\* bus thread is made last.
QuitOf(p) ==
  /\ \A i \in 1..Len(bus[p]) : bus[p][i] = "quit" => pc[p] \in Ending
  /\ callback # Nobody /\ callback.player = p /\ callback.message = "quit" => pc[p] \in Ending
  /\ ~running[p] /\ thread[p] \in {"waiting", "dispatching"} => pc[p] \in Ending
  /\ pc[p] \notin Ending => Len(bus[p]) <= MaxBacklog
  /\ pc[p] \in {"new", "init", "flag", "create"} => thread[p] = "none"

QuitInv == \A p \in Players : QuitOf(p)

OnBus(p) == \E i \in 1..Len(bus[p]) : bus[p][i] = "quit"
Taken(p) == callback # Nobody /\ callback.player = p /\ callback.message = "quit"

\* There is one QUIT message, and it is not lost: the thread that will be joined is
\* in its loop, or not yet there, until it has been handled.
LastOf(p) ==
  /\ \A i, j \in 1..Len(bus[p]) : bus[p][i] = "quit" /\ bus[p][j] = "quit" => i = j
  /\ OnBus(p) => ~Taken(p)
  /\ OnBus(p) \/ Taken(p) =>
       /\ pc[p] = "join"
       /\ thread[p] # "exited"
       /\ thread[p] \in {"waiting", "dispatching"} => running[p]
  /\ pc[p] \in {"null", "freed"} => thread[p] = "exited"

LastInv == \A p \in Players : LastOf(p)

\* A client has a mutex while it waits for playbin2, and to free the player; a bus
\* thread has it for ever, of the player whose message it is in.
MutexOf(p) ==
  /\ mActionMutex[p] = Client <=> pc[p] \in {"call", "null"}
  /\ mActionMutex[p] \in Players =>
       /\ owner = mActionMutex[p]
       /\ callback # Nobody /\ callback.player = p
       /\ pc[p] # "freed"

MutexInv == \A p \in Players : MutexOf(p)

IInv == TypeOK /\ InitInv /\ QuitInv /\ ContextIsOwned /\ LastInv /\ MutexInv

-----------------------------------------------------------------------------
LEMMA InitIInv == Init => IInv
<1> SUFFICES ASSUME Init PROVE IInv
  OBVIOUS
<1>1. /\ bus \in [Players -> Seq(Messages)]
      /\ \A p \in Players : bus[p] = <<>> /\ Len(bus[p]) = 0
  BY DEF Init
<1>2. /\ gst_inited \in BOOLEAN /\ gstReady \in BOOLEAN /\ crashed \in BOOLEAN
      /\ running \in [Players -> BOOLEAN]
  BY DEF Init
<1>3. TypeOK
  BY <1>1, <1>2, MaxBacklogAssumption DEF Init, TypeOK, Lives
<1>4. InitInv
  BY DEF Init, InitInv, InitedBeforeUse
<1>5. QuitInv
  <2> SUFFICES ASSUME NEW p \in Players
               PROVE  /\ Len(bus[p]) = 0 /\ callback = Nobody /\ thread[p] = "none"
                      /\ 0 <= MaxBacklog /\ \A i \in 1..0 : FALSE
    BY DEF QuitInv, QuitOf
  <2>1. callback = Nobody /\ thread[p] = "none"
    BY DEF Init
  <2>2. Len(bus[p]) = 0
    BY <1>1
  <2>3. 0 <= MaxBacklog /\ \A i \in 1..0 : FALSE
    BY MaxBacklogAssumption
  <2> QED BY <2>1, <2>2, <2>3
<1>6. ContextIsOwned
  BY NamesAssumption DEF Init, ContextIsOwned
<1>7. LastInv
  <2> SUFFICES ASSUME NEW p \in Players PROVE LastOf(p)
    BY DEF LastInv
  <2>1. Len(bus[p]) = 0 /\ \A i \in 1..0 : FALSE
    BY <1>1
  <2>2. ~Taken(p) /\ pc[p] = "new" /\ ~OnBus(p)
    BY <2>1 DEF Init, Taken, OnBus
  <2> QED BY <2>1, <2>2 DEF LastOf
<1>8. MutexInv
  BY NamesAssumption DEF Init, MutexInv, MutexOf
<1> QED BY <1>3, <1>4, <1>5, <1>6, <1>7, <1>8 DEF IInv

\* What a message changes on a bus, and what it does not.
LEMMA Posted ==
  ASSUME bus \in [Players -> Seq(Messages)], NEW p \in Players, NEW m \in Messages, Put(p, m)
  PROVE  /\ bus' \in [Players -> Seq(Messages)]
         /\ Len(bus'[p]) = Len(bus[p]) + 1
         /\ \A i \in 1..Len(bus'[p]) : bus'[p][i] = m \/ (i \in 1..Len(bus[p]) /\ bus'[p][i] = bus[p][i])
         /\ \A q \in Players \ {p} : bus'[q] = bus[q]
         /\ \A q \in Players : Len(bus[q]) \in Nat /\ Len(bus'[q]) \in Nat
<1>1. bus' = [bus EXCEPT ![p] = Append(bus[p], m)]
  BY DEF Put
<1>2. bus[p] \in Seq(Messages) /\ Append(bus[p], m) \in Seq(Messages)
  OBVIOUS
<1>3. bus'[p] = Append(bus[p], m)
  BY <1>1
<1> QED BY <1>1, <1>2, <1>3

LEMMA NewsAreMessages ==
  \A p \in Players : \A m \in News(p) : m \in Messages /\ m # "quit"
  BY DEF News, Messages

LEMMA TypeStep ==
  ASSUME TypeOK, QuitInv, [Next]_vars
  PROVE  TypeOK'
<1> USE DEF TypeOK, initVars, playerVars, loopVars, contextVars
<1>1. ASSUME NEW p \in Players, InitGst(p) PROVE TypeOK'
  BY <1>1 DEF InitGst, Goes, Lives
<1>2. ASSUME NEW p \in Players, GstInitReturns(p) \/ InitGstEnds(p) PROVE TypeOK'
  BY <1>2 DEF GstInitReturns, InitGstEnds, Goes, Lives
<1>3. ASSUME NEW p \in Players, CreatePipeline(p) PROVE TypeOK'
  BY <1>3 DEF CreatePipeline, Goes, Lives
<1>4. ASSUME NEW p \in Players, Wait(p) PROVE TypeOK'
  BY <1>4 DEF Wait, Goes, Lives
<1>5. ASSUME NEW p \in Players, Return(p) PROVE TypeOK'
  BY <1>5 DEF Return, Goes, Lives
<1>6. ASSUME NEW p \in Players, Delete(p) PROVE TypeOK'
  <2>1. Put(p, "quit") /\ "quit" \in Messages
    BY <1>6 DEF Delete, Messages
  <2>2. Len(bus[p]) <= MaxBacklog
    BY <1>6 DEF Delete, Goes, QuitInv, QuitOf, Ending
  <2>3. bus' \in [Players -> Seq(Messages)] /\ \A q \in Players : Len(bus'[q]) <= MaxBacklog + 1
    <3>1. /\ bus' \in [Players -> Seq(Messages)]
          /\ Len(bus'[p]) = Len(bus[p]) + 1
          /\ \A q \in Players \ {p} : bus'[q] = bus[q]
          /\ \A q \in Players : Len(bus[q]) \in Nat /\ Len(bus'[q]) \in Nat
      BY <2>1, Posted
    <3>2. Len(bus'[p]) <= MaxBacklog + 1
      BY <2>2, <3>1, MaxBacklogAssumption
    <3> QED BY <3>1, <3>2
  <2> QED BY <1>6, <2>3 DEF Delete, Goes, Lives
<1>7. ASSUME NEW p \in Players, Joined(p) PROVE TypeOK'
  BY <1>7 DEF Joined, Goes, Lives
<1>8. ASSUME NEW p \in Players, Free(p) PROVE TypeOK'
  <2>1. bus' \in [Players -> Seq(Messages)] /\ \A q \in Players : Len(bus'[q]) <= MaxBacklog + 1
    BY <1>8, MaxBacklogAssumption DEF Free
  <2> QED BY <1>8, <2>1 DEF Free, Goes, Lives
<1>9. ASSUME NEW p \in Players, Post(p) PROVE TypeOK'
  <2>1. PICK m \in Messages : Put(p, m) /\ m # "quit"
    BY <1>9, NewsAreMessages DEF Post
  <2>2. bus' \in [Players -> Seq(Messages)] /\ \A q \in Players : Len(bus'[q]) <= MaxBacklog + 1
    <3>1. /\ bus' \in [Players -> Seq(Messages)]
          /\ Len(bus'[p]) = Len(bus[p]) + 1
          /\ \A q \in Players \ {p} : bus'[q] = bus[q]
          /\ \A q \in Players : Len(bus[q]) \in Nat /\ Len(bus'[q]) \in Nat
      BY <2>1, Posted
    <3>2. Len(bus[p]) < MaxBacklog
      BY <1>9 DEF Post
    <3>3. Len(bus'[p]) <= MaxBacklog + 1
      BY <3>1, <3>2, MaxBacklogAssumption
    <3> QED BY <3>1, <3>3
  <2> QED BY <1>9, <2>2 DEF Post
<1>10. ASSUME NEW p \in Players, RunLoop(p) PROVE TypeOK'
  BY <1>10 DEF RunLoop, Runs
<1>11. ASSUME NEW p \in Players, GetContext(p) PROVE TypeOK'
  BY <1>11 DEF GetContext, Runs
<1>12. ASSUME NEW p \in Players, LeaveLoop(p) PROVE TypeOK'
  BY <1>12 DEF LeaveLoop, Runs
<1>13. ASSUME NEW p \in Players, Iterate(p) PROVE TypeOK'
  BY <1>13 DEF Iterate
<1>14. ASSUME NEW p \in Players, NEW q \in Players, Dispatch(p, q) PROVE TypeOK'
  <2>1. CASE bus[q] = <<>>
    BY <1>14, <2>1 DEF Dispatch
  <2>2. CASE bus[q] # <<>>
    <3>1. /\ Head(bus[q]) \in Messages /\ Tail(bus[q]) \in Seq(Messages)
          /\ Len(Tail(bus[q])) \in Nat /\ Len(bus[q]) \in Nat
          /\ Len(Tail(bus[q])) <= Len(bus[q])
      BY <2>2
    <3>2. bus' = [bus EXCEPT ![q] = Tail(bus[q])]
      BY <1>14, <2>2 DEF Dispatch
    <3>3. Len(Tail(bus[q])) <= MaxBacklog + 1
      BY <3>1, MaxBacklogAssumption
    <3>4. bus' \in [Players -> Seq(Messages)] /\ \A r \in Players : Len(bus'[r]) <= MaxBacklog + 1
      BY <3>1, <3>2, <3>3
    <3>5. callback' \in Callbacks
      BY <1>14, <2>2, <3>1 DEF Dispatch, Callbacks
    <3> QED BY <1>14, <3>4, <3>5 DEF Dispatch
  <2> QED BY <2>1, <2>2
<1>15. ASSUME NEW p \in Players, BusCallback(p) PROVE TypeOK'
  <2>1. callback \in Callbacks
    BY <1>15 DEF BusCallback, Locks
  <2>2. running' \in [Players -> BOOLEAN]
    BY <1>15, <2>1 DEF BusCallback, QuitsLoop, Callbacks
  <2> QED BY <1>15, <2>2 DEF BusCallback
<1>16. ASSUME NEW p \in Players, PlayAgain(p) \/ BusCallbackCrashes(p) PROVE TypeOK'
  <2>1. CASE PlayAgain(p)
    BY <2>1 DEF PlayAgain, Locks, Callbacks
  <2>2. CASE BusCallbackCrashes(p)
    BY <2>2 DEF BusCallbackCrashes
  <2> QED BY <1>16, <2>1, <2>2
<1>17. CASE UNCHANGED vars
  BY <1>17 DEF vars
<1> QED
  BY <1>1, <1>2, <1>3, <1>4, <1>5, <1>6, <1>7, <1>8, <1>9, <1>10, <1>11, <1>12, <1>13,
     <1>14, <1>15, <1>16, <1>17
  DEF Next, ClientStep, ThreadStep, Terminated

LEMMA InitStep ==
  ASSUME TypeOK, InitInv, [Next]_vars
  PROVE  InitInv'
<1> USE DEF TypeOK, InitInv, InitedBeforeUse, initVars, playerVars, Goes
<1>1. ASSUME NEW p \in Players, ClientStep(p) PROVE InitInv'
  <2>1. CASE InitGst(p)
    BY <2>1 DEF InitGst
  <2>2. CASE GstInitReturns(p) \/ InitGstEnds(p)
    BY <2>2 DEF GstInitReturns, InitGstEnds
  <2>3. CASE CreatePipeline(p) \/ Wait(p) \/ Return(p)
    BY <2>3 DEF CreatePipeline, Wait, Return
  <2>4. CASE Delete(p) \/ Joined(p) \/ Free(p)
    BY <2>4 DEF Delete, Joined, Free
  <2> QED BY <1>1, <2>1, <2>2, <2>3, <2>4 DEF ClientStep
<1>2. ASSUME NEW p \in Players, Post(p) \/ ThreadStep(p) PROVE InitInv'
  <2>1. UNCHANGED <<gst_inited, gstReady, pc>>
    BY <1>2 DEF Post, ThreadStep, RunLoop, GetContext, LeaveLoop, Iterate, Dispatch,
               BusCallback, PlayAgain, BusCallbackCrashes
  <2> QED BY <2>1
<1>3. CASE UNCHANGED vars
  BY <1>3 DEF vars
<1> QED BY <1>1, <1>2, <1>3 DEF Next, Terminated

LEMMA QuitStep ==
  ASSUME TypeOK, QuitInv, [Next]_vars
  PROVE  QuitInv'
<1> USE DEF TypeOK, QuitInv, QuitOf, Ending, initVars, playerVars, loopVars, contextVars
<1>1. ASSUME NEW p \in Players, InitGst(p) PROVE QuitInv'
  BY <1>1 DEF InitGst, Goes
<1>2. ASSUME NEW p \in Players, GstInitReturns(p) \/ InitGstEnds(p) PROVE QuitInv'
  BY <1>2 DEF GstInitReturns, InitGstEnds, Goes
<1>3. ASSUME NEW p \in Players, CreatePipeline(p) PROVE QuitInv'
  BY <1>3 DEF CreatePipeline, Goes
<1>4. ASSUME NEW p \in Players, Wait(p) PROVE QuitInv'
  BY <1>4 DEF Wait, Goes
<1>5. ASSUME NEW p \in Players, Return(p) PROVE QuitInv'
  BY <1>5 DEF Return, Goes
<1>6. ASSUME NEW p \in Players, Delete(p) PROVE QuitInv'
  <2>1. Put(p, "quit") /\ "quit" \in Messages
    BY <1>6 DEF Delete, Messages
  <2>2. pc'[p] = "join" /\ \A q \in Players \ {p} : pc'[q] = pc[q]
    BY <1>6 DEF Delete, Goes
  <2>3. \A q \in Players \ {p} : bus'[q] = bus[q]
    BY <2>1, Posted
  <2>4. UNCHANGED <<callback, running, thread>>
    BY <1>6 DEF Delete
  <2> SUFFICES ASSUME NEW q \in Players PROVE QuitOf(q)'
    OBVIOUS
  <2>5. CASE q = p
    BY <2>2, <2>4, <2>5
  <2>6. CASE q # p
    BY <2>2, <2>3, <2>4, <2>6
  <2> QED BY <2>5, <2>6
<1>7. ASSUME NEW p \in Players, Joined(p) PROVE QuitInv'
  BY <1>7 DEF Joined, Goes
<1>8. ASSUME NEW p \in Players, Free(p) PROVE QuitInv'
  <2>1. pc'[p] = "freed" /\ \A q \in Players \ {p} : pc'[q] = pc[q] /\ bus'[q] = bus[q]
    BY <1>8 DEF Free, Goes
  <2> QED BY <1>8, <2>1 DEF Free
<1>9. ASSUME NEW p \in Players, Post(p) PROVE QuitInv'
  <2>1. PICK m \in Messages : Put(p, m) /\ m # "quit"
    BY <1>9, NewsAreMessages DEF Post
  <2>2. /\ \A i \in 1..Len(bus'[p]) :
             bus'[p][i] = m \/ (i \in 1..Len(bus[p]) /\ bus'[p][i] = bus[p][i])
        /\ \A q \in Players \ {p} : bus'[q] = bus[q]
    BY <2>1, Posted
  <2>3. Len(bus'[p]) <= MaxBacklog
    <3>1. Len(bus[p]) \in Nat /\ Len(bus'[p]) = Len(bus[p]) + 1 /\ Len(bus[p]) < MaxBacklog
      BY <1>9, <2>1, Posted DEF Post
    <3> QED BY <3>1, MaxBacklogAssumption
  <2>4. UNCHANGED <<pc, callback, running, thread>>
    BY <1>9 DEF Post
  <2>5. \A i \in 1..Len(bus'[p]) : bus'[p][i] = "quit" => pc[p] \in Ending
    BY <2>1, <2>2
  <2> SUFFICES ASSUME NEW q \in Players PROVE QuitOf(q)'
    OBVIOUS
  <2>6. CASE q = p
    BY <2>3, <2>4, <2>5, <2>6
  <2>7. CASE q # p
    BY <2>2, <2>4, <2>7
  <2> QED BY <2>6, <2>7
<1>10. ASSUME NEW p \in Players, RunLoop(p) PROVE QuitInv'
  BY <1>10 DEF RunLoop, Runs
<1>11. ASSUME NEW p \in Players, GetContext(p) PROVE QuitInv'
  BY <1>11 DEF GetContext, Runs
<1>12. ASSUME NEW p \in Players, LeaveLoop(p) PROVE QuitInv'
  BY <1>12 DEF LeaveLoop, Runs
<1>13. ASSUME NEW p \in Players, Iterate(p) PROVE QuitInv'
  BY <1>13 DEF Iterate
<1>14. ASSUME NEW p \in Players, NEW q \in Players, Dispatch(p, q) PROVE QuitInv'
  <2>1. CASE bus[q] = <<>>
    BY <1>14, <2>1 DEF Dispatch
  <2>2. CASE bus[q] # <<>>
    <3>1. /\ callback' = [player |-> q, message |-> bus[q][1]]
          /\ bus' = [bus EXCEPT ![q] = Tail(bus[q])]
          /\ UNCHANGED <<pc, running, thread>>
      BY <1>14, <2>2 DEF Dispatch
    <3>2. /\ 1 \in 1..Len(bus[q])
          /\ Len(Tail(bus[q])) = Len(bus[q]) - 1
          /\ \A i \in 1..Len(Tail(bus[q])) : Tail(bus[q])[i] = bus[q][i + 1] /\ i + 1 \in 1..Len(bus[q])
      BY <2>2
    <3>3. \A r \in Players : bus'[r] = IF r = q THEN Tail(bus[q]) ELSE bus[r]
      BY <3>1
    <3>4. \A r \in Players : \A i \in 1..Len(bus'[r]) : bus'[r][i] = "quit" => pc[r] \in Ending
      <4> SUFFICES ASSUME NEW r \in Players, NEW i \in 1..Len(bus'[r]), bus'[r][i] = "quit"
                   PROVE  pc[r] \in Ending
        OBVIOUS
      <4>1. CASE r = q
        <5>1. bus'[r] = Tail(bus[q])
          BY <3>3, <4>1
        <5>2. bus[q][i + 1] = "quit" /\ i + 1 \in 1..Len(bus[q])
          BY <3>2, <5>1
        <5> QED BY <4>1, <5>2
      <4>2. CASE r # q
        <5>1. bus'[r] = bus[r]
          BY <3>3, <4>2
        <5> QED BY <5>1
      <4> QED BY <4>1, <4>2
    <3>5. \A r \in Players : callback'.player = r /\ callback'.message = "quit" => pc[r] \in Ending
      BY <3>1, <3>2
    <3>6. \A r \in Players : pc[r] \notin Ending => Len(bus'[r]) <= MaxBacklog
      <4>1. Len(bus[q]) \in Nat
        OBVIOUS
      <4>2. pc[q] \notin Ending => Len(Tail(bus[q])) <= MaxBacklog
        BY <3>2, <4>1, MaxBacklogAssumption
      <4> QED BY <3>3, <4>2
    <3> QED BY <3>1, <3>4, <3>5, <3>6
  <2> QED BY <2>1, <2>2
<1>15. ASSUME NEW p \in Players, BusCallback(p) PROVE QuitInv'
  <2>1. callback \in Callbacks /\ callback # Nobody
    BY <1>15 DEF BusCallback, Locks
  <2>2. \A q \in Players : ~running'[q] =>
          ~running[q] \/ (callback.player = q /\ callback.message = "quit")
    BY <1>15, <2>1 DEF BusCallback, QuitsLoop, Callbacks
  <2> QED BY <1>15, <2>1, <2>2 DEF BusCallback
<1>16. ASSUME NEW p \in Players, PlayAgain(p) \/ BusCallbackCrashes(p) PROVE QuitInv'
  BY <1>16 DEF PlayAgain, BusCallbackCrashes
<1>17. CASE UNCHANGED vars
  BY <1>17 DEF vars
<1> QED
  BY <1>1, <1>2, <1>3, <1>4, <1>5, <1>6, <1>7, <1>8, <1>9, <1>10, <1>11, <1>12, <1>13,
     <1>14, <1>15, <1>16, <1>17
  DEF Next, ClientStep, ThreadStep, Terminated

LEMMA ContextStep ==
  ASSUME TypeOK, QuitInv, ContextIsOwned, [Next]_vars
  PROVE  ContextIsOwned'
<1> USE DEF TypeOK, ContextIsOwned, initVars, playerVars, loopVars, contextVars
<1>1. ASSUME NEW p \in Players, InitGst(p) \/ GstInitReturns(p) \/ InitGstEnds(p)
      PROVE  ContextIsOwned'
  BY <1>1 DEF InitGst, GstInitReturns, InitGstEnds, Goes
<1>2. ASSUME NEW p \in Players, CreatePipeline(p) PROVE ContextIsOwned'
  BY <1>2 DEF CreatePipeline, Goes, QuitInv, QuitOf
<1>3. ASSUME NEW p \in Players, Wait(p) \/ Return(p) PROVE ContextIsOwned'
  BY <1>3 DEF Wait, Return, Goes
<1>4. ASSUME NEW p \in Players, Delete(p) \/ Joined(p) \/ Free(p) PROVE ContextIsOwned'
  BY <1>4 DEF Delete, Joined, Free, Goes
<1>5. ASSUME NEW p \in Players, Post(p) PROVE ContextIsOwned'
  BY <1>5 DEF Post
<1>6. ASSUME NEW p \in Players, RunLoop(p) PROVE ContextIsOwned'
  BY <1>6, NamesAssumption DEF RunLoop, Runs
<1>7. ASSUME NEW p \in Players, GetContext(p) PROVE ContextIsOwned'
  BY <1>7, NamesAssumption DEF GetContext, Runs
<1>8. ASSUME NEW p \in Players, LeaveLoop(p) PROVE ContextIsOwned'
  <2>1. pc[p] \in {"join", "null", "freed"}
    BY <1>8 DEF LeaveLoop, QuitInv, QuitOf, Ending
  <2> QED BY <1>8, <2>1, NamesAssumption DEF LeaveLoop, Runs
<1>9. ASSUME NEW p \in Players, Iterate(p) PROVE ContextIsOwned'
  BY <1>9, NamesAssumption DEF Iterate
<1>10. ASSUME NEW p \in Players, NEW q \in Players, Dispatch(p, q) PROVE ContextIsOwned'
  BY <1>10, NamesAssumption DEF Dispatch
<1>11. ASSUME NEW p \in Players, BusCallback(p) PROVE ContextIsOwned'
  BY <1>11 DEF BusCallback
<1>12. ASSUME NEW p \in Players, PlayAgain(p) \/ BusCallbackCrashes(p) PROVE ContextIsOwned'
  BY <1>12 DEF PlayAgain, BusCallbackCrashes
<1>13. CASE UNCHANGED vars
  BY <1>13 DEF vars
<1> QED
  BY <1>1, <1>2, <1>3, <1>4, <1>5, <1>6, <1>7, <1>8, <1>9, <1>10, <1>11, <1>12, <1>13
  DEF Next, ClientStep, ThreadStep, Terminated

-----------------------------------------------------------------------------
(* The last message *)

\* Of a player whose part of the state does not change, LastOf stays.
LEMMA LastKept ==
  ASSUME NEW p \in Players, LastOf(p), UNCHANGED <<pc[p], bus[p], thread[p], running[p]>>,
         Taken(p)' => Taken(p)
  PROVE  LastOf(p)'
<1>1. OnBus(p)' <=> OnBus(p)
  BY DEF OnBus
<1> QED BY <1>1 DEF LastOf

\* What the client's thread does.
LEMMA LastClientStep ==
  ASSUME TypeOK, QuitInv, ContextIsOwned, LastInv, NEW p \in Players, ClientStep(p)
  PROVE  LastInv'
<1> USE DEF TypeOK, initVars, loopVars, contextVars
<1> SUFFICES ASSUME NEW q \in Players PROVE LastOf(q)'
  BY DEF LastInv
<1>1. LastOf(q) /\ LastOf(p)
  BY DEF LastInv
<1>2. Taken(q)' <=> Taken(q)
  BY DEF Taken, ClientStep, InitGst, GstInitReturns, InitGstEnds, CreatePipeline, Wait, Return, Delete, Joined, Free
<1>3. CASE q # p
  <2>1. UNCHANGED <<pc[q], bus[q], thread[q], running[q]>>
    BY <1>3 DEF ClientStep, InitGst, GstInitReturns, InitGstEnds, CreatePipeline, Wait, Return, Delete, Joined,
       Free, Goes, Put
  <2> QED BY <1>1, <1>2, <2>1, LastKept
<1>4. ASSUME \/ InitGst(p) \/ GstInitReturns(p) \/ InitGstEnds(p) \/ CreatePipeline(p)
             \/ Wait(p) \/ Return(p)
      PROVE  LastOf(p)'
  <2>1. pc[p] # "join" /\ pc'[p] \notin {"null", "freed"} /\ bus' = bus
    BY <1>4 DEF InitGst, GstInitReturns, InitGstEnds, CreatePipeline, Wait, Return, Goes
  <2>2. ~OnBus(p)' /\ ~Taken(p)'
    <3>1. UNCHANGED <<bus, callback>>
      BY <1>4 DEF InitGst, GstInitReturns, InitGstEnds, CreatePipeline, Wait, Return
    <3> QED BY <1>1, <2>1, <3>1 DEF LastOf, OnBus, Taken
  <2> QED BY <1>1, <2>1, <2>2 DEF LastOf
<1>5. ASSUME Delete(p) PROVE LastOf(p)'
  <2>1. Put(p, "quit") /\ pc[p] = "alive" /\ pc'[p] = "join" /\ UNCHANGED <<thread, running, callback>>
    BY <1>5 DEF Delete, Goes
  <2>2. ~OnBus(p) /\ ~Taken(p)
    BY <1>1, <2>1 DEF LastOf
  <2>3. ~Taken(p)'
    BY <2>1, <2>2 DEF Taken
  <2>4. /\ \A i, j \in 1..Len(bus'[p]) : bus'[p][i] = "quit" /\ bus'[p][j] = "quit" => i = j
    <3>1. /\ bus' = [bus EXCEPT ![p] = Append(bus[p], "quit")] /\ bus[p] \in Seq(Messages)
      BY <2>1 DEF Put
    <3>2. bus'[p] = Append(bus[p], "quit")
      BY <3>1
    <3>3. \A i \in 1..Len(bus'[p]) : bus'[p][i] = "quit" => i = Len(bus[p]) + 1
      BY <2>2, <3>1, <3>2 DEF OnBus
    <3> QED BY <3>3
  <2>5. thread[p] # "exited" /\ (thread[p] \in {"waiting", "dispatching"} => running[p])
    BY <2>1 DEF ContextIsOwned, QuitInv, QuitOf, Ending
  <2> QED BY <2>1, <2>3, <2>4, <2>5 DEF LastOf
<1>6. ASSUME Joined(p) PROVE LastOf(p)'
  <2>1. /\ thread[p] = "exited" /\ thread'[p] = "exited"
        /\ UNCHANGED <<bus, callback>>
    BY <1>6 DEF Joined
  <2>2. ~OnBus(p)' /\ ~Taken(p)'
    BY <1>1, <2>1 DEF LastOf, OnBus, Taken
  <2>3. \A i, j \in 1..Len(bus'[p]) : bus'[p][i] = "quit" /\ bus'[p][j] = "quit" => i = j
    BY <1>1, <2>1 DEF LastOf
  <2> QED BY <2>1, <2>2, <2>3 DEF LastOf
<1>7. ASSUME Free(p) PROVE LastOf(p)'
  <2>1. pc[p] = "null" /\ bus'[p] = <<>> /\ UNCHANGED <<thread, callback>>
    BY <1>7 DEF Free, Goes
  <2>2. thread'[p] = "exited" /\ ~Taken(p)'
    BY <1>1, <2>1 DEF LastOf, Taken
  <2>3. Len(bus'[p]) = 0 /\ \A i \in 1..0 : FALSE
    BY <2>1
  <2> QED BY <2>2, <2>3 DEF LastOf, OnBus
<1> QED BY <1>3, <1>4, <1>5, <1>6, <1>7 DEF ClientStep

LEMMA LastPostStep ==
  ASSUME TypeOK, LastInv, NEW p \in Players, Post(p)
  PROVE  LastInv'
<1> USE DEF TypeOK, loopVars, contextVars
<1> SUFFICES ASSUME NEW q \in Players PROVE LastOf(q)'
  BY DEF LastInv
<1>1. LastOf(q)
  BY DEF LastInv
<1>2. UNCHANGED <<pc, thread, running, callback>>
  BY DEF Post
<1>3. PICK m \in Messages : Put(p, m) /\ m # "quit"
  BY NewsAreMessages DEF Post
<1>4. Taken(q)' <=> Taken(q)
  BY <1>2 DEF Taken
<1>5. /\ \A i \in 1..Len(bus'[p]) :
           bus'[p][i] = m \/ (i \in 1..Len(bus[p]) /\ bus'[p][i] = bus[p][i])
      /\ \A r \in Players \ {p} : bus'[r] = bus[r]
  BY <1>3, Posted
<1>6. CASE q # p
  BY <1>1, <1>2, <1>4, <1>5, <1>6, LastKept
<1>7. CASE q = p
  <2>1. OnBus(p)' => OnBus(p)
    BY <1>5, <1>3 DEF OnBus
  <2>2. \A i, j \in 1..Len(bus'[p]) : bus'[p][i] = "quit" /\ bus'[p][j] = "quit" => i = j
    BY <1>1, <1>5, <1>7, <1>3 DEF LastOf
  <2> QED BY <1>1, <1>2, <1>4, <1>7, <2>1, <2>2 DEF LastOf
<1> QED BY <1>6, <1>7

\* What a bus thread does, to the messages of any player.
LEMMA LastThreadStep ==
  ASSUME TypeOK, LastInv, NEW p \in Players, ThreadStep(p)
  PROVE  LastInv'
<1> USE DEF TypeOK, initVars, playerVars, loopVars, contextVars
<1> SUFFICES ASSUME NEW q \in Players PROVE LastOf(q)'
  BY DEF LastInv
<1>1. LastOf(q)
  BY DEF LastInv
<1>2. ASSUME RunLoop(p) \/ GetContext(p) \/ LeaveLoop(p) PROVE LastOf(q)'
  <2>1. UNCHANGED <<pc, bus, callback>>
    BY <1>2 DEF RunLoop, GetContext, LeaveLoop
  <2>2. (OnBus(q)' <=> OnBus(q)) /\ (Taken(q)' <=> Taken(q))
    BY <2>1 DEF OnBus, Taken
  <2>3. CASE q # p
    <3>1. UNCHANGED <<thread[q], running[q]>>
      BY <1>2, <2>3 DEF RunLoop, GetContext, LeaveLoop, Runs
    <3> QED BY <1>1, <2>1, <2>2, <3>1, LastKept
  <2>4. CASE q = p
    <3>1. \/ thread[p] \in {"starting", "waiting"} /\ thread'[p] \in {"waiting", "dispatching"} /\ running'[p]
          \/ thread[p] \in {"waiting", "dispatching"} /\ ~running[p] /\ thread'[p] = "exited"
      BY <1>2 DEF RunLoop, GetContext, LeaveLoop, Runs
    <3> QED BY <1>1, <2>1, <2>2, <2>4, <3>1 DEF LastOf
  <2> QED BY <2>3, <2>4
<1>3. ASSUME Iterate(p) \/ PlayAgain(p) \/ BusCallbackCrashes(p) PROVE LastOf(q)'
  <2>1. UNCHANGED <<pc, bus, callback, thread, running>>
    BY <1>3 DEF Iterate, PlayAgain, BusCallbackCrashes
  <2>2. Taken(q)' => Taken(q)
    BY <2>1 DEF Taken
  <2> QED BY <1>1, <2>1, <2>2, LastKept
<1>4. ASSUME NEW r \in Players, Dispatch(p, r) PROVE LastOf(q)'
  <2>1. callback = Nobody /\ UNCHANGED <<pc, thread, running>>
    BY <1>4 DEF Dispatch
  <2>2. CASE bus[r] = <<>>
    <3>1. UNCHANGED <<bus, callback>>
      BY <1>4, <2>2 DEF Dispatch
    <3>2. Taken(q)' => Taken(q)
      BY <3>1 DEF Taken
    <3> QED BY <1>1, <2>1, <3>1, <3>2, LastKept
  <2>3. CASE bus[r] # <<>>
    <3>1. /\ callback' = [player |-> r, message |-> bus[r][1]]
          /\ bus' = [bus EXCEPT ![r] = Tail(bus[r])]
      BY <1>4, <2>3 DEF Dispatch
    <3>2. /\ 1 \in 1..Len(bus[r]) /\ Len(bus[r]) \in Nat
          /\ Len(Tail(bus[r])) = Len(bus[r]) - 1
          /\ \A i \in 1..Len(Tail(bus[r])) : Tail(bus[r])[i] = bus[r][i + 1] /\ i + 1 \in 1..Len(bus[r])
      BY <2>3
    <3>3. CASE q # r
      <4>1. bus'[q] = bus[q] /\ ~Taken(q)'
        BY <3>1, <3>3 DEF Taken
      <4> QED BY <1>1, <2>1, <4>1, LastKept
    <3>4. CASE q = r
      <4>1. bus'[q] = Tail(bus[q])
        BY <3>1, <3>4
      <4>2. OnBus(q)' => \E i \in 1..Len(bus[q]) : i # 1 /\ bus[q][i] = "quit"
        BY <3>2, <3>4, <4>1 DEF OnBus
      <4>3. Taken(q)' => bus[q][1] = "quit"
        BY <3>1, <3>4 DEF Taken
      <4>4. OnBus(q)' => ~Taken(q)'
        BY <1>1, <3>2, <3>4, <4>2, <4>3 DEF LastOf
      <4>5. OnBus(q)' \/ Taken(q)' => OnBus(q)
        BY <3>2, <3>4, <4>2, <4>3 DEF OnBus
      <4>6. \A i, j \in 1..Len(bus'[q]) : bus'[q][i] = "quit" /\ bus'[q][j] = "quit" => i = j
        <5> SUFFICES ASSUME NEW i \in 1..Len(bus'[q]), NEW j \in 1..Len(bus'[q]),
                            bus'[q][i] = "quit", bus'[q][j] = "quit"
                     PROVE  i = j
          OBVIOUS
        <5>1. /\ i + 1 \in 1..Len(bus[q]) /\ bus[q][i + 1] = "quit"
              /\ j + 1 \in 1..Len(bus[q]) /\ bus[q][j + 1] = "quit"
          BY <3>2, <3>4, <4>1
        <5>2. i + 1 = j + 1
          BY <1>1, <5>1 DEF LastOf
        <5>3. i \in Nat /\ j \in Nat
          BY <3>2, <3>4, <4>1
        <5> QED BY <5>2, <5>3
      <4> QED BY <1>1, <2>1, <4>4, <4>5, <4>6 DEF LastOf
    <3> QED BY <3>3, <3>4
  <2> QED BY <2>2, <2>3
<1>5. ASSUME BusCallback(p) PROVE LastOf(q)'
  <2>1. /\ callback \in Callbacks /\ callback # Nobody /\ callback' = Nobody
        /\ UNCHANGED <<pc, bus, thread>>
    BY <1>5 DEF BusCallback, Locks
  <2>2. ~Taken(q)' /\ (OnBus(q)' <=> OnBus(q))
    BY <2>1 DEF Taken, OnBus
  <2>3. OnBus(q) => running'[q] = running[q]
    <3>1. running'[q] # running[q] => Taken(q)
      BY <1>5, <2>1 DEF BusCallback, QuitsLoop, Callbacks, Taken
    <3> QED BY <1>1, <3>1 DEF LastOf
  <2> QED BY <1>1, <2>1, <2>2, <2>3 DEF LastOf
<1> QED BY <1>2, <1>3, <1>4, <1>5 DEF ThreadStep

LEMMA LastStep ==
  ASSUME TypeOK, QuitInv, ContextIsOwned, LastInv, [Next]_vars
  PROVE  LastInv'
<1>1. CASE UNCHANGED vars
  <2>1. UNCHANGED <<pc, bus, callback, thread, running>>
    BY <1>1 DEF vars, playerVars, loopVars, contextVars
  <2> SUFFICES ASSUME NEW q \in Players PROVE LastOf(q)'
    BY DEF LastInv
  <2>2. Taken(q)' => Taken(q)
    BY <2>1 DEF Taken
  <2> QED BY <2>1, <2>2, LastKept DEF LastInv
<1>2. CASE \E p \in Players : ClientStep(p) \/ Post(p) \/ ThreadStep(p)
  BY <1>2, LastClientStep, LastPostStep, LastThreadStep
<1> QED BY <1>1, <1>2 DEF Next, Terminated

LEMMA MutexStep ==
  ASSUME TypeOK, ContextIsOwned, MutexInv, [Next]_vars
  PROVE  MutexInv'
<1> USE DEF TypeOK, initVars, playerVars, loopVars, contextVars
<1> SUFFICES ASSUME NEW q \in Players PROVE MutexOf(q)'
  BY DEF MutexInv
<1>1. MutexOf(q)
  BY DEF MutexInv
<1>2. ASSUME NEW p \in Players, ClientStep(p) PROVE MutexOf(q)'
  <2>1. UNCHANGED <<owner, callback>>
    BY <1>2 DEF ClientStep, InitGst, GstInitReturns, InitGstEnds, CreatePipeline, Wait, Return,
       Delete, Joined, Free
  <2>2. CASE q # p
    <3>1. UNCHANGED <<pc[q], mActionMutex[q]>>
      BY <1>2, <2>2 DEF ClientStep, InitGst, GstInitReturns, InitGstEnds, CreatePipeline, Wait,
         Return, Delete, Joined, Free, Goes
    <3> QED BY <1>1, <2>1, <3>1 DEF MutexOf
  <2>3. CASE q = p /\ (InitGst(p) \/ GstInitReturns(p) \/ InitGstEnds(p) \/ CreatePipeline(p) \/ Delete(p))
    <3>1. UNCHANGED mActionMutex /\ pc[q] \notin {"call", "null"} /\ pc'[q] \notin {"call", "null", "freed"}
      BY <2>3 DEF InitGst, GstInitReturns, InitGstEnds, CreatePipeline, Delete, Goes
    <3> QED BY <1>1, <2>1, <3>1 DEF MutexOf
  <2>4. CASE q = p /\ (Wait(p) \/ Joined(p))
    <3>1. mActionMutex'[q] = Client /\ pc'[q] \in {"call", "null"}
      BY <2>4 DEF Wait, Joined, Goes
    <3> QED BY <3>1, NamesAssumption DEF MutexOf
  <2>5. CASE q = p /\ (Return(p) \/ Free(p))
    <3>1. mActionMutex'[q] = Nobody /\ pc'[q] \in {"alive", "freed"}
      BY <2>5 DEF Return, Free, Goes
    <3> QED BY <3>1, NamesAssumption DEF MutexOf
  <2> QED BY <1>2, <2>2, <2>3, <2>4, <2>5 DEF ClientStep
<1>3. ASSUME NEW p \in Players, Post(p) \/ Iterate(p) \/ BusCallbackCrashes(p) PROVE MutexOf(q)'
  <2>1. UNCHANGED <<pc, mActionMutex, owner, callback>>
    BY <1>3 DEF Post, Iterate, BusCallbackCrashes
  <2> QED BY <1>1, <2>1 DEF MutexOf
<1>4. ASSUME NEW p \in Players, RunLoop(p) \/ GetContext(p) \/ LeaveLoop(p) PROVE MutexOf(q)'
  <2>1. /\ UNCHANGED <<pc, mActionMutex, callback>>
        /\ owner' = owner \/ owner = Nobody \/ callback = Nobody
    BY <1>4 DEF RunLoop, GetContext, LeaveLoop
  <2> QED BY <1>1, <2>1, NamesAssumption DEF MutexOf
<1>5. ASSUME NEW p \in Players, NEW r \in Players, Dispatch(p, r) PROVE MutexOf(q)'
  <2>1. UNCHANGED <<pc, mActionMutex, owner>> /\ callback = Nobody
    BY <1>5 DEF Dispatch
  <2> QED BY <1>1, <2>1 DEF MutexOf
<1>6. ASSUME NEW p \in Players, BusCallback(p) PROVE MutexOf(q)'
  <2>1. UNCHANGED <<pc, mActionMutex, owner>> /\ mActionMutex[callback.player] = Nobody
    BY <1>6 DEF BusCallback, Locks
  <2>2. mActionMutex[q] \notin Players
    BY <1>1, <2>1, NamesAssumption DEF MutexOf
  <2> QED BY <1>1, <2>1, <2>2 DEF MutexOf
<1>7. ASSUME NEW p \in Players, PlayAgain(p) PROVE MutexOf(q)'
  <2>1. /\ UNCHANGED <<pc, owner, callback>>
        /\ callback # Nobody /\ callback \in Callbacks
        /\ pc[callback.player] # "freed" /\ mActionMutex[callback.player] = Nobody
        /\ mActionMutex' = [mActionMutex EXCEPT ![callback.player] = p]
        /\ thread[p] = "dispatching"
    BY <1>7 DEF PlayAgain, Locks
  <2>2. owner = p
    BY <2>1 DEF ContextIsOwned
  <2>3. CASE q = callback.player
    <3>1. mActionMutex'[q] = p /\ pc[q] \notin {"call", "null"}
      BY <1>1, <2>1, <2>3, NamesAssumption DEF MutexOf
    <3> QED BY <2>1, <2>2, <2>3, <3>1, NamesAssumption DEF MutexOf
  <2>4. CASE q # callback.player
    <3>1. mActionMutex'[q] = mActionMutex[q]
      BY <2>1, <2>4
    <3> QED BY <1>1, <2>1, <3>1 DEF MutexOf
  <2> QED BY <2>3, <2>4
<1>8. CASE UNCHANGED vars
  BY <1>1, <1>8 DEF vars, MutexOf
<1> QED
  BY <1>2, <1>3, <1>4, <1>5, <1>6, <1>7, <1>8 DEF Next, ThreadStep, Terminated

LEMMA Invariance == Spec => []IInv
<1>1. IInv /\ [Next]_vars => IInv'
  BY TypeStep, InitStep, QuitStep, ContextStep, LastStep, MutexStep DEF IInv
<1> QED BY InitIInv, <1>1, PTL DEF Spec

-----------------------------------------------------------------------------
\* The types of the main loops.
THEOREM TypeCorrect == Spec => []TypeOK
<1>1. IInv => TypeOK
  BY DEF IInv
<1> QED BY <1>1, Invariance, PTL

\* However many constructors race through init_gst, and however many of them call
\* gst_init, none goes on before it has returned, and none that comes after the first
\* to go on begins it again.
THEOREM Inited == Spec => []InitedBeforeUse
<1>1. IInv => InitedBeforeUse
  BY DEF IInv, InitInv
<1> QED BY <1>1, Invariance, PTL

\* One thread at a time has the default context, and no bus thread ends but after
\* the QUIT message of its own player.
THEOREM OneOwner == Spec => []ContextIsOwned
<1>1. IInv => ContextIsOwned
  BY DEF IInv
<1> QED BY <1>1, Invariance, PTL

\* For any number of players: a thread that has been waited for is in nobody's
\* bus_callback, so the one that is late is the thread of another player.
LEMMA LateThreads == IInv => OnlyOthersAreLate
<1> SUFFICES ASSUME IInv, callback # Nobody, pc[callback.player] \in {"null", "freed"}
             PROVE  owner # callback.player
  BY DEF OnlyOthersAreLate
<1>1. callback.player \in Players
  BY DEF IInv, TypeOK, Callbacks
<1>2. thread[callback.player] = "exited"
  BY <1>1 DEF IInv, LastInv, LastOf
<1> QED BY <1>1, <1>2 DEF IInv, ContextIsOwned

THEOREM OthersLate == Spec => []OnlyOthersAreLate
  BY LateThreads, Invariance, PTL

\* With one player in the process the destructor is safe: the one thread that could be
\* in bus_callback is the one it has waited for.
THEOREM OnePlayerSafe ==
  ASSUME \A p, q \in Players : p = q
  PROVE  Spec => []NoCallbackAfterFree
<1>1. IInv => NoCallbackAfterFree
  <2> SUFFICES ASSUME IInv, callback # Nobody, pc[callback.player] = "freed" PROVE FALSE
    BY DEF NoCallbackAfterFree
  <2>1. callback.player \in Players
    BY DEF IInv, TypeOK, Callbacks
  <2>2. owner \in Players
    BY DEF IInv, TypeOK, ContextIsOwned
  <2>3. owner # callback.player
    BY LateThreads DEF OnlyOthersAreLate
  <2> QED BY <2>1, <2>2, <2>3
<1> QED BY <1>1, Invariance, PTL

\* A circle leads through the thread that has the context to one that plays again.
LEMMA Circles ==
  ASSUME IInv, NEW S \in SUBSET ThreadNames, Circle(S)
  PROVE  \E p \in Players : <<"bus", p>> \in S /\ Restarts(p)
<1>1. TypeOK /\ ContextIsOwned /\ MutexInv
  BY DEF IInv
<1>2. \A x \in S : \E y \in S : WaitsFor(x, y)
  BY DEF Circle
<1>3. ASSUME NEW p \in Players, HasMutex(<<"client", p>>, p) PROVE <<"client", p>> \notin S
  \* A client that has a mutex waits for nobody.
  <2>1. pc[p] \in {"call", "null"}
    BY <1>1, <1>3 DEF HasMutex, MutexInv, MutexOf
  <2>2. \A y : ~WaitsFor(<<"client", p>>, y)
    BY <2>1 DEF WaitsFor
  <2> QED BY <1>2, <2>2
<1>4. ASSUME NEW p \in Players, NEW y \in S, HasMutex(y, p)
      PROVE  mActionMutex[p] \in Players /\ y = <<"bus", mActionMutex[p]>>
  BY <1>3, <1>4 DEF HasMutex
<1>5. ASSUME NEW p \in Players, NEW y \in S, HasMutex(y, p) PROVE \E r \in Players : <<"bus", r>> \in S /\ Restarts(r)
  BY <1>4, <1>5 DEF Restarts
<1>6. ASSUME NEW p \in Players, <<"bus", p>> \in S, thread[p] = "dispatching"
      PROVE  \E r \in Players : <<"bus", r>> \in S /\ Restarts(r)
  <2>1. PICK y \in S : WaitsFor(<<"bus", p>>, y)
    BY <1>2, <1>6
  <2>2. callback # Nobody /\ HasMutex(y, callback.player)
    BY <1>6, <2>1 DEF WaitsFor
  <2>3. callback.player \in Players
    BY <1>1, <2>2 DEF TypeOK, Callbacks
  <2> QED BY <1>5, <2>2, <2>3
<1>7. ASSUME NEW p \in Players, <<"bus", p>> \in S
      PROVE  \E r \in Players : <<"bus", r>> \in S /\ Restarts(r)
  <2>1. PICK y \in S : WaitsFor(<<"bus", p>>, y)
    BY <1>2, <1>7
  <2>2. CASE thread[p] = "dispatching"
    BY <1>6, <1>7, <2>2
  <2>3. CASE thread[p] # "dispatching"
    <3>1. owner # Nobody /\ y = <<"bus", owner>>
      BY <2>1, <2>3 DEF WaitsFor
    <3>2. owner \in Players /\ thread[owner] = "dispatching"
      BY <1>1, <3>1 DEF TypeOK, ContextIsOwned
    <3> QED BY <1>6, <3>1, <3>2
  <2> QED BY <2>2, <2>3
<1>8. PICK x \in S : TRUE
  BY DEF Circle
<1>9. PICK p \in Players : x = <<"client", p>> \/ x = <<"bus", p>>
  BY <1>8 DEF ThreadNames
<1>10. CASE x = <<"bus", p>>
  BY <1>7, <1>9, <1>10
<1>11. CASE x = <<"client", p>>
  <2>1. PICK y \in S : WaitsFor(x, y)
    BY <1>2
  <2>2. y = <<"bus", p>> \/ HasMutex(y, p)
    BY <1>11, <2>1 DEF WaitsFor
  <2> QED BY <1>5, <1>7, <2>2
<1> QED BY <1>9, <1>10, <1>11

\* However many players share the context, threads that wait for each other for ever
\* wait for a bus thread that plays again in a handler.
THEOREM NoDeadlockButRestarts == Spec => []OnlyRestartsDeadlock
<1>1. IInv => OnlyRestartsDeadlock
  BY Circles DEF OnlyRestartsDeadlock
<1> QED BY <1>1, Invariance, PTL

\* A QUIT message that its thread needs is neither lost nor spent on another loop,
\* whichever thread takes it from the bus and handles it.
THEOREM QuitKept == Spec => QuitIsKept
<1> DEFINE Kept(p) == /\ pc[p] = "join" /\ thread[p] \in {"waiting", "dispatching"}
                      /\ QuitOnItsWay(p)
                      => pc'[p] # "join" \/ QuitOnItsWay(p)'
<1>1. ASSUME TypeOK, [Next]_vars PROVE [\A p \in Players : Kept(p)]_vars
  <2> SUFFICES ASSUME NEW q \in Players, pc[q] = "join", thread[q] \in {"waiting", "dispatching"},
                      QuitOnItsWay(q), pc'[q] = "join"
               PROVE  QuitOnItsWay(q)'
    OBVIOUS
  <2> USE <1>1 DEF TypeOK, QuitOnItsWay, initVars, playerVars, loopVars, contextVars
  <2>1. ASSUME NEW p \in Players, ClientStep(p) PROVE QuitOnItsWay(q)'
    <3>1. UNCHANGED <<callback, running>>
      BY <2>1 DEF ClientStep, InitGst, GstInitReturns, InitGstEnds, CreatePipeline, Wait, Return, Delete, Joined, Free
    <3>2. bus'[q] = bus[q]
      BY <2>1 DEF ClientStep, InitGst, GstInitReturns, InitGstEnds, CreatePipeline, Wait, Return, Delete, Joined,
         Free, Goes, Put
    <3> QED BY <3>1, <3>2
  <2>2. ASSUME NEW p \in Players, Post(p) PROVE QuitOnItsWay(q)'
    <3>1. UNCHANGED <<callback, running>>
      BY <2>2 DEF Post
    <3>2. PICK m \in Messages : Put(p, m)
      BY <2>2, NewsAreMessages DEF Post
    <3>3. bus[q] \in Seq(Messages) /\ (bus'[q] = bus[q] \/ bus'[q] = Append(bus[q], m))
      BY <3>2 DEF Put
    <3>4. CASE bus'[q] = bus[q]
      BY <3>1, <3>4
    <3>5. CASE bus'[q] = Append(bus[q], m)
      <4>1. \A i \in 1..Len(bus[q]) : i \in 1..Len(bus'[q]) /\ bus'[q][i] = bus[q][i]
        BY <3>3, <3>5
      <4> QED BY <3>1, <4>1
    <3> QED BY <3>3, <3>4, <3>5
  <2>3. ASSUME NEW p \in Players, RunLoop(p) \/ GetContext(p) \/ LeaveLoop(p) \/ Iterate(p)
                                   \/ PlayAgain(p) \/ BusCallbackCrashes(p)
        PROVE  QuitOnItsWay(q)'
    <3>1. UNCHANGED <<bus, callback, running[q]>>
      BY <2>3 DEF RunLoop, GetContext, LeaveLoop, Iterate, PlayAgain, BusCallbackCrashes
    <3> QED BY <3>1
  <2>4. ASSUME NEW p \in Players, NEW r \in Players, Dispatch(p, r) PROVE QuitOnItsWay(q)'
    <3>1. callback = Nobody /\ UNCHANGED running
      BY <2>4 DEF Dispatch
    <3>2. CASE bus'[q] = bus[q]
      BY <3>1, <3>2
    <3>3. CASE bus'[q] # bus[q]
      <4>1. /\ r = q /\ bus[q] # <<>> /\ bus'[q] = Tail(bus[q]) /\ bus[q] \in Seq(Messages)
            /\ callback' = [player |-> q, message |-> bus[q][1]]
        BY <2>4, <3>3 DEF Dispatch
      <4>2. callback' # Nobody
        <5>1. callback' \in Callbacks
          BY <4>1 DEF Callbacks
        <5> QED BY <5>1, NobodyAssumption
      <4>3. \A i \in 1..Len(bus[q]) : i = 1 \/ (i - 1 \in 1..Len(bus'[q]) /\ bus'[q][i - 1] = bus[q][i])
        BY <4>1
      <4> QED BY <3>1, <4>1, <4>2, <4>3
    <3> QED BY <3>2, <3>3
  <2>5. ASSUME NEW p \in Players, BusCallback(p) PROVE QuitOnItsWay(q)'
    <3>1. UNCHANGED bus /\ callback \in Callbacks
      BY <2>5 DEF BusCallback, Locks
    <3>2. callback = [player |-> q, message |-> "quit"] => ~running'[q]
      BY <2>5, <3>1 DEF BusCallback, QuitsLoop
    <3>3. ~running[q] => ~running'[q]
      BY <2>5, <3>1 DEF BusCallback, QuitsLoop, Callbacks
    <3> QED BY <3>1, <3>2, <3>3
  <2>6. CASE UNCHANGED vars
    BY <2>6 DEF vars
  <2> QED BY <2>1, <2>2, <2>3, <2>4, <2>5, <2>6 DEF Next, ThreadStep, Terminated
<1>2. TypeOK /\ [Next]_vars => [\A p \in Players : Kept(p)]_vars
  BY <1>1
<1>3. Spec => [][\A p \in Players : Kept(p)]_vars
  BY <1>2, TypeCorrect, PTL DEF Spec
<1> QED BY <1>3 DEF QuitIsKept

-----------------------------------------------------------------------------
(* The mailboxes *)

\* What the mailboxes are mapped to.
phase == [q \in Players |-> Life(q)]
held == [q \in Players |-> Held(q)]
inHand == [q \in Players |-> InHand(q)]

LEMMA FreeIs ==
  ASSUME NEW p \in Players, mActionMutex[p] = Nobody
  PROVE  Held(p) = "free"
  BY NamesAssumption DEF Held

LEMMA MailInit == Init => Mail!Init
<1> SUFFICES ASSUME Init PROVE Mail!Init
  OBVIOUS
<1>1. phase = [p \in Players |-> "new"]
  BY DEF Init, phase, Life
<1>2. phase \in [Players -> {"new", "open"}]
  BY <1>1
<1>3. held = [p \in Players |-> "free"] /\ inHand = [p \in Players |-> <<>>]
  <2>1. \A p \in Players : mActionMutex[p] = Nobody /\ callback = Nobody
    BY DEF Init
  <2>2. \A p \in Players : Held(p) = "free"
    BY <2>1, FreeIs
  <2> QED BY <2>1, <2>2 DEF held, inHand, InHand
<1> QED BY <1>2, <1>3 DEF Init, Mail!Init, phase, held, inHand

LEMMA LifeTurns ==
  ASSUME TypeOK, NEW p \in Players, NEW from \in Lives, NEW to \in Lives, Goes(p, from, to)
  PROVE  /\ phase[p] = Life(p) /\ pc[p] = from /\ pc'[p] = to
         /\ phase' = [phase EXCEPT ![p] = Life(p)']
<1>1. \A q \in Players \ {p} : Life(q)' = Life(q)
  BY DEF TypeOK, Goes, Life
<1>2. pc[p] = from /\ pc'[p] = to
  BY DEF TypeOK, Goes
<1> QED BY <1>1, <1>2 DEF phase

LEMMA LifeKept ==
  ASSUME TypeOK, NEW p \in Players, NEW from \in Lives, NEW to \in Lives, Goes(p, from, to),
         \/ from \in {"new", "init", "flag"} /\ to \in {"init", "flag", "create"}
         \/ from \in {"alive", "call"} /\ to \in {"alive", "call"}
         \/ from \in {"join", "null"} /\ to \in {"join", "null"}
  PROVE  UNCHANGED phase
<1>1. Life(p)' = Life(p)
  BY LifeTurns DEF Life
<1>2. phase' = [phase EXCEPT ![p] = Life(p)] /\ phase[p] = Life(p)
  BY <1>1, LifeTurns
<1> QED BY <1>2 DEF phase

LEMMA SameLife == UNCHANGED pc => UNCHANGED phase
  BY DEF phase, Life

LEMMA SameMutex == UNCHANGED mActionMutex => UNCHANGED held
  BY DEF held, Held

LEMMA SameHand ==
  ASSUME UNCHANGED callback,
         \A p \in Players : mActionMutex'[p] \in Players <=> mActionMutex[p] \in Players
  PROVE  UNCHANGED inHand
  BY DEF inHand, InHand

\* What a call that takes a mutex, or gives it back, does to held.
LEMMA MutexTurns ==
  ASSUME TypeOK, NEW p \in Players, NEW t \in {Nobody, Client}, mActionMutex[p] \notin Players,
         mActionMutex' = [mActionMutex EXCEPT ![p] = t]
  PROVE  /\ held[p] # "handler"
         /\ held' = [held EXCEPT ![p] = IF t = Nobody THEN "free" ELSE "call"]
         /\ \A q \in Players : mActionMutex'[q] \in Players <=> mActionMutex[q] \in Players
<1>1. mActionMutex'[p] = t /\ \A q \in Players \ {p} : mActionMutex'[q] = mActionMutex[q]
  BY DEF TypeOK
<1>2. \A q \in Players \ {p} : Held(q)' = Held(q)
  BY <1>1 DEF Held
<1>3. Held(p)' = IF t = Nobody THEN "free" ELSE "call"
  BY <1>1, NamesAssumption DEF Held
<1>4. mActionMutex[p] \in {Nobody, Client}
  BY DEF TypeOK
<1>5. Held(p) # "handler"
  BY <1>4, NamesAssumption DEF Held
<1> QED BY <1>1, <1>2, <1>3, <1>5, NamesAssumption DEF held

LEMMA MailStutters ==
  ASSUME UNCHANGED <<phase, held, bus, inHand, crashed>>
  PROVE  UNCHANGED Mail!mailVars
  BY DEF Mail!mailVars, phase, held, inHand

LEMMA MailWorks ==
  ASSUME TypeOK, NEW p \in Players, ~crashed, phase[p] \in {"open", "closing"},
         UNCHANGED <<phase, bus, inHand, crashed>>,
         held[p] # "handler", NEW h \in {"free", "call"}, held' = [held EXCEPT ![p] = h]
  PROVE  Mail!Work(p)
<1>1. bus = [bus EXCEPT ![p] = bus[p]] /\ Len(bus[p]) \in Nat
  BY DEF TypeOK
<1>2. Mail!Longer(bus[p], bus[p])
  BY <1>1 DEF Mail!Longer
<1> QED BY <1>1, <1>2 DEF Mail!Work, phase, held, inHand

\* What the client's thread does to the mailbox of its player.
LEMMA ClientMail ==
  ASSUME IInv, NEW p \in Players, ClientStep(p)
  PROVE  Mail!Next \/ UNCHANGED Mail!mailVars
<1>1. TypeOK /\ LastOf(p) /\ MutexOf(p)
  BY DEF IInv, LastInv, MutexInv
<1> USE DEF initVars, loopVars, contextVars
<1>2. CASE InitGst(p) \/ GstInitReturns(p) \/ InitGstEnds(p)
  <2>1. UNCHANGED <<held, bus, inHand, crashed>>
    BY <1>2, SameMutex, SameHand DEF InitGst, GstInitReturns, InitGstEnds
  <2>2. UNCHANGED phase
    BY <1>1, <1>2, LifeKept DEF InitGst, GstInitReturns, InitGstEnds, Lives
  <2> QED BY <2>1, <2>2, MailStutters
<1>3. CASE CreatePipeline(p)
  <2>1. UNCHANGED <<held, bus, inHand, crashed>> /\ ~crashed
    BY <1>3, SameMutex, SameHand DEF CreatePipeline
  <2>2. phase[p] = "new" /\ phase' = [phase EXCEPT ![p] = "open"]
    BY <1>1, <1>3, LifeTurns DEF CreatePipeline, Lives, Life
  <2>3. Mail!Open(p)
    BY <2>1, <2>2 DEF Mail!Open, Mail!Turn, phase, held, inHand
  <2> QED BY <2>3 DEF Mail!Next
<1>4. CASE Wait(p) \/ Return(p) \/ Joined(p)
  <2>1. UNCHANGED <<bus, callback, crashed>> /\ ~crashed
    BY <1>4 DEF Wait, Return, Joined
  <2>2. UNCHANGED phase
    BY <1>1, <1>4, LifeKept DEF Wait, Return, Joined, Lives
  <2>3. phase[p] \in {"open", "closing"}
    BY <1>4 DEF Wait, Return, Joined, Goes, phase, Life
  <2>4. PICK t \in {Nobody, Client} : mActionMutex' = [mActionMutex EXCEPT ![p] = t]
    BY <1>4 DEF Wait, Return, Joined
  <2>5. mActionMutex[p] \notin Players
    BY <1>1, <1>4, NamesAssumption DEF MutexOf, Wait, Return, Joined, Goes
  <2>6. /\ held[p] # "handler"
        /\ held' = [held EXCEPT ![p] = IF t = Nobody THEN "free" ELSE "call"]
        /\ UNCHANGED inHand
    BY <1>1, <2>1, <2>4, <2>5, MutexTurns, SameHand
  <2>7. PICK h \in {"free", "call"} : held' = [held EXCEPT ![p] = h]
    BY <2>6
  <2>8. Mail!Work(p)
    BY <1>1, <2>1, <2>2, <2>3, <2>6, <2>7, MailWorks
  <2> QED BY <2>8 DEF Mail!Next
<1>5. CASE Delete(p)
  <2>1. UNCHANGED <<held, inHand, crashed>> /\ ~crashed /\ Put(p, "quit") /\ held[p] = "free"
    BY <1>5, SameMutex, SameHand, FreeIs DEF Delete, held
  <2>2. phase[p] = "open" /\ phase' = [phase EXCEPT ![p] = "closing"]
    BY <1>1, <1>5, LifeTurns DEF Delete, Lives, Life
  <2>3. Mail!PostLast(p)
    BY <2>1, <2>2 DEF Mail!PostLast, Mail!Turn, Put, phase, held, inHand
  <2> QED BY <2>3 DEF Mail!Next
<1>6. CASE Free(p)
  <2>1. /\ UNCHANGED <<callback, crashed>> /\ ~crashed
        /\ pc[p] = "null" /\ bus' = [bus EXCEPT ![p] = <<>>]
        /\ mActionMutex' = [mActionMutex EXCEPT ![p] = Nobody]
    BY <1>6 DEF Free, Goes
  <2>2. phase[p] = "closing" /\ phase' = [phase EXCEPT ![p] = "closed"]
    BY <1>1, <1>6, LifeTurns DEF Free, Lives, Life
  <2>3. held[p] # "handler" /\ held' = [held EXCEPT ![p] = "free"] /\ UNCHANGED inHand
    <3>1. mActionMutex[p] \notin Players
      BY <1>1, <2>1, NamesAssumption DEF MutexOf
    <3> QED BY <1>1, <2>1, <3>1, MutexTurns, SameHand
  <2>4. ~OnBus(p) /\ ~Taken(p)
    BY <1>1, <2>1 DEF LastOf
  <2>5. \A i \in 1..Len(bus[p]) : bus[p][i] # "quit"
    BY <2>4 DEF OnBus
  <2>6. inHand[p] # <<"quit">>
    <3>1. inHand[p] = <<>> \/ (callback # Nobody /\ callback.player = p /\ inHand[p] = <<callback.message>>)
      BY DEF inHand, InHand
    <3>2. <<"quit">> # <<>>
      OBVIOUS
    <3>3. ASSUME callback # Nobody, callback.player = p PROVE <<callback.message>> # <<"quit">>
      <4>1. callback.message # "quit"
        BY <2>4, <3>3 DEF Taken
      <4> QED BY <4>1
    <3> QED BY <3>1, <3>2, <3>3
  <2>7. Mail!Close(p)
    BY <2>1, <2>2, <2>3, <2>5, <2>6 DEF Mail!Close, Mail!Turn, phase, held, inHand
  <2> QED BY <2>7 DEF Mail!Next
<1> QED BY <1>2, <1>3, <1>4, <1>5, <1>6 DEF ClientStep

LEMMA PostMail ==
  ASSUME IInv, NEW p \in Players, Post(p)
  PROVE  Mail!Next
<1>1. UNCHANGED <<phase, held, inHand, crashed>> /\ ~crashed
  BY SameLife, SameMutex, SameHand DEF Post, contextVars
<1>2. phase[p] \in {"open", "closing"}
  BY DEF Post, phase, Life
<1>3. PICK m \in Messages : Put(p, m) /\ m # "quit"
  BY NewsAreMessages DEF Post
<1>4. bus \in [Players -> Seq(Messages)]
  BY DEF IInv, TypeOK
<1>5. bus' = [bus EXCEPT ![p] = bus'[p]] /\ bus'[p] = Append(bus[p], m)
  BY <1>3, <1>4 DEF Put
<1>6. Mail!Longer(bus[p], bus'[p])
  BY <1>3, <1>4, <1>5 DEF Mail!Longer
<1>7. Mail!Work(p)
  BY <1>1, <1>2, <1>5, <1>6 DEF Mail!Work, phase, held, inHand
<1> QED BY <1>7 DEF Mail!Next

\* What any bus thread does to the mailboxes of all players.
LEMMA ThreadMail ==
  ASSUME IInv, NEW p \in Players, ThreadStep(p)
  PROVE  Mail!Next \/ UNCHANGED Mail!mailVars
<1> USE DEF initVars, playerVars, loopVars, contextVars
<1>1. CASE RunLoop(p) \/ GetContext(p) \/ LeaveLoop(p) \/ Iterate(p)
  <2>1. UNCHANGED <<pc, mActionMutex, bus, callback, crashed>>
    BY <1>1 DEF RunLoop, GetContext, LeaveLoop, Iterate
  <2> QED BY <2>1, SameLife, SameMutex, SameHand, MailStutters
<1>2. ASSUME NEW q \in Players, Dispatch(p, q), bus[q] = <<>>
      PROVE  UNCHANGED Mail!mailVars
  <2>1. UNCHANGED <<pc, mActionMutex, bus, callback, crashed>>
    BY <1>2 DEF Dispatch
  <2> QED BY <2>1, SameLife, SameMutex, SameHand, MailStutters
<1>3. ASSUME NEW q \in Players, Dispatch(p, q), bus[q] # <<>>
      PROVE  Mail!Next
  <2>1. /\ ~crashed /\ callback = Nobody
        /\ callback' = [player |-> q, message |-> Head(bus[q])]
        /\ bus' = [bus EXCEPT ![q] = Tail(@)]
        /\ UNCHANGED <<phase, held, crashed>>
    BY <1>3, SameLife, SameMutex DEF Dispatch
  <2>2. Head(bus[q]) \in Messages
    BY <1>3 DEF IInv, TypeOK
  <2>3. callback' # Nobody
    BY <2>1, <2>2, NobodyAssumption DEF Callbacks
  <2>4. inHand = [r \in Players |-> <<>>]
    BY <2>1 DEF inHand, InHand
  <2>5. /\ \A r \in Players : mActionMutex[r] \notin Players
        /\ UNCHANGED mActionMutex /\ held[q] # "handler"
    <3>1. \A r \in Players : mActionMutex[r] \notin Players
      BY <2>1 DEF IInv, MutexInv, MutexOf
    <3>2. Held(q) # "handler"
      BY <3>1 DEF Held, IInv, TypeOK
    <3> QED BY <1>3, <3>1, <3>2 DEF Dispatch, held
  <2>6. inHand' = [r \in Players |-> IF r = q THEN <<Head(bus[q])>> ELSE <<>>]
    BY <2>1, <2>3, <2>5 DEF inHand, InHand
  <2>7. inHand[q] = <<>> /\ inHand' = [inHand EXCEPT ![q] = <<Head(bus[q])>>]
    BY <2>4, <2>6
  <2>8. Mail!Take(q)
    BY <1>3, <2>1, <2>5, <2>7 DEF Mail!Take, phase, held, inHand
  <2> QED BY <2>8 DEF Mail!Next
<1>4. CASE BusCallback(p) \/ PlayAgain(p)
  <2>1. /\ ~crashed /\ callback # Nobody
        /\ pc[callback.player] # "freed"
        /\ mActionMutex[callback.player] = Nobody
        /\ UNCHANGED <<phase, bus, crashed>>
    BY <1>4, SameLife DEF BusCallback, PlayAgain, Locks
  <2>2. TypeOK /\ callback.player \in Players
    BY <2>1 DEF IInv, TypeOK, Callbacks
  <2> PICK q \in Players : q = callback.player
    BY <2>2
  <2>3. phase[q] # "closed" /\ held[q] = "free"
    <3>1. phase[q] # "closed"
      BY <2>1, <2>2 DEF TypeOK, Lives, phase, Life
    <3>2. Held(q) = "free"
      BY <2>1, <2>2, FreeIs
    <3> QED BY <2>2, <3>1, <3>2 DEF held
  <2>4. inHand = [r \in Players |-> IF r = q THEN <<callback.message>> ELSE <<>>]
    <3>1. mActionMutex[q] \notin Players
      BY <2>1, NamesAssumption
    <3> QED BY <2>1, <3>1 DEF inHand, InHand
  <2>5. inHand' = [r \in Players |-> <<>>] /\ \E h \in {"free", "handler"} : held' = [held EXCEPT ![q] = h]
    <3>1. CASE BusCallback(p)
      <4>1. callback' = Nobody /\ UNCHANGED held
        BY <3>1, SameMutex DEF BusCallback
      <4>2. held' = [held EXCEPT ![q] = "free"]
        BY <2>3, <4>1 DEF held
      <4> QED BY <4>1, <4>2 DEF inHand, InHand
    <3>2. CASE PlayAgain(p)
      <4>1. mActionMutex' = [mActionMutex EXCEPT ![q] = p] /\ UNCHANGED callback
        BY <3>2 DEF PlayAgain
      <4>2. mActionMutex'[q] = p /\ \A r \in Players \ {q} : mActionMutex'[r] = mActionMutex[r]
        BY <2>2, <4>1 DEF TypeOK
      <4>3. \A r \in Players \ {q} : Held(r)' = Held(r)
        BY <4>2 DEF Held
      <4>4. Held(q)' = "handler"
        <5>1. mActionMutex'[q] # Nobody /\ mActionMutex'[q] # Client
          BY <4>2, NamesAssumption
        <5> QED BY <5>1 DEF Held
      <4>5. held' = [held EXCEPT ![q] = "handler"]
        BY <2>2, <4>3, <4>4 DEF held
      <4>6. inHand' = [r \in Players |-> <<>>]
        BY <4>1, <4>2 DEF inHand, InHand
      <4> QED BY <4>5, <4>6
    <3> QED BY <1>4, <3>1, <3>2
  <2>6. inHand[q] = <<callback.message>> /\ inHand' = [inHand EXCEPT ![q] = <<>>]
    BY <2>2, <2>4, <2>5
  <2>7. inHand[q] # <<>>
    BY <2>6
  <2>8. Mail!Handle(q)
    BY <2>1, <2>3, <2>5, <2>6, <2>7 DEF Mail!Handle, Mail!Handles, phase, held, inHand
  <2> QED BY <2>8 DEF Mail!Next
<1>5. CASE BusCallbackCrashes(p)
  <2>1. /\ ~crashed /\ callback # Nobody
        /\ pc[callback.player] = "freed" /\ crashed' = TRUE
        /\ UNCHANGED <<phase, held, bus, inHand>>
    BY <1>5, SameLife, SameMutex, SameHand DEF BusCallbackCrashes
  <2> DEFINE q == callback.player
  <2>2. q \in Players
    BY <2>1 DEF IInv, TypeOK, Callbacks
  <2>3. phase[q] = "closed"
    BY <2>1, <2>2 DEF phase, Life
  <2>4. inHand[q] = <<callback.message>>
    <3>1. mActionMutex[q] \notin Players
      BY <2>1, <2>2 DEF IInv, MutexInv, MutexOf
    <3> QED BY <2>1, <2>2, <3>1 DEF inHand, InHand
  <2>5. inHand[q] # <<>>
    BY <2>4
  <2> HIDE DEF q
  <2>6. Mail!Break(q)
    BY <2>1, <2>3, <2>5 DEF Mail!Break, phase, held, inHand
  <2> QED BY <2>2, <2>6 DEF Mail!Next
<1> QED BY <1>1, <1>2, <1>3, <1>4, <1>5 DEF ThreadStep

LEMMA MailStep ==
  ASSUME IInv, [Next]_vars
  PROVE  [Mail!Next]_(Mail!mailVars)
<1>1. CASE UNCHANGED vars
  <2>1. UNCHANGED <<pc, mActionMutex, bus, callback, crashed>>
    BY <1>1 DEF vars, playerVars, contextVars
  <2> QED BY <2>1, SameLife, SameMutex, SameHand, MailStutters
<1>2. CASE \E p \in Players : ClientStep(p) \/ Post(p) \/ ThreadStep(p)
  BY <1>2, ClientMail, PostMail, ThreadMail
<1> QED BY <1>1, <1>2 DEF Next, Terminated

\* However many players share the default context, the bus of each keeps what
\* Mailboxes promises of safety: one message at a time, in the order of posting,
\* never while a call has the mutex; none is lost but by the death of its player,
\* and none of those before QUIT at all.
THEOREM LoopsImplementMailboxes == Spec => MailSpec
<1>1. IInv /\ [Next]_vars => [Mail!Next]_(Mail!mailVars)
  BY MailStep
<1> QED BY MailInit, <1>1, Invariance, PTL DEF Spec, MailSpec, Mail!Spec
=============================================================================
