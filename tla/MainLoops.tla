------------------------------ MODULE MainLoops ------------------------------
(***************************************************************************)
(* Several GstPlayerPipelines in one process: the media server makes one   *)
(* for each client.                                                        *)
(*                                                                         *)
(* Every constructor calls init_gst.  Every player makes a GMainLoop of    *)
(* its own, but on the default context, to which the watches of all buses  *)
(* are attached: one bus thread at a time owns the context and runs        *)
(* bus_callback for all the players, the other bus threads wait until it   *)
(* leaves or until their own loop is told to quit.                         *)
(*                                                                         *)
(* Of a player, the module keeps what matters to the others: its life, its *)
(* mutex, its bus and its thread.  GstPlayerPipeline has the rest.         *)
(***************************************************************************)
EXTENDS Integers, Sequences

CONSTANTS Players,
          Looping,         \* the players whose client has called setLooping(TRUE)
          Nobody, Client,  \* owners of a mutex, besides bus threads
          MaxBacklog       \* bound of the model: messages on a bus

ASSUME NamesAssumption == Nobody \notin Players /\ Client \notin Players /\ Nobody # Client
ASSUME LoopingAssumption == Looping \subseteq Players
ASSUME MaxBacklogAssumption == MaxBacklog \in Nat

Messages == {"state-changed", "eos", "quit"}

\* What playbin2 of p posts.  EOS of a player that does not loop is reported, like
\* the changes of state.
News(p) == IF p \in Looping THEN {"state-changed", "eos"} ELSE {"state-changed"}

\* Calls of bus_callback.
Callbacks == [player : Players, message : Messages]

ASSUME NobodyAssumption == Nobody \notin Callbacks

VARIABLES
  gst_inited,    \* the flag that init_gst looks at
  gstReady,      \* gst_init has returned, once at least
  pc,            \* where the client's thread of each player is
  mActionMutex,  \* of each player: Client, Nobody, or the player whose bus thread has it
  bus,           \* of each player
  running,       \* of each player: is_running of mMainLoop
  thread,        \* of each player: the life of its bus thread
  owner,         \* the default context: the player whose thread has it, or Nobody
  pending,       \* the watches its iteration has yet to dispatch
  callback,      \* the call of bus_callback that its thread is in, or Nobody
  crashed        \* a player that has been freed was used

initVars    == <<gst_inited, gstReady>>
playerVars  == <<pc, mActionMutex, bus>>
loopVars    == <<running, thread>>
contextVars == <<owner, pending, callback>>
vars == <<initVars, playerVars, loopVars, contextVars, crashed>>

\* The client's thread.  new: not constructed.  init: in gst_init.  flag: back from
\* it, gst_inited to be set.  create: in create_pipeline.  alive: in no call.
\* call: in a call that waits for playbin2.  join: in g_thread_join.  null: in
\* gst_element_set_state(NULL).
Lives == {"new", "init", "flag", "create", "alive", "call", "join", "null", "freed"}

TypeOK ==
  /\ gst_inited \in BOOLEAN /\ gstReady \in BOOLEAN
  /\ pc \in [Players -> Lives]
  /\ mActionMutex \in [Players -> {Nobody, Client} \cup Players]
  /\ bus \in [Players -> Seq(Messages)]
  /\ \A p \in Players : Len(bus[p]) <= MaxBacklog + 1
  /\ running \in [Players -> BOOLEAN]
  /\ thread \in [Players -> {"none", "starting", "waiting", "dispatching", "exited"}]
  /\ owner \in Players \cup {Nobody}
  /\ pending \subseteq Players
  /\ callback \in Callbacks \cup {Nobody}
  /\ crashed \in BOOLEAN

Init ==
  /\ gst_inited = FALSE /\ gstReady = FALSE
  /\ pc = [p \in Players |-> "new"]
  /\ mActionMutex = [p \in Players |-> Nobody]
  /\ bus = [p \in Players |-> <<>>]
  /\ running = [p \in Players |-> FALSE]
  /\ thread = [p \in Players |-> "none"]
  /\ owner = Nobody
  /\ pending = {}
  /\ callback = Nobody
  /\ crashed = FALSE

Goes(p, from, to) == pc[p] = from /\ pc' = [pc EXCEPT ![p] = to]

Put(p, m) == bus' = [bus EXCEPT ![p] = Append(@, m)]

-----------------------------------------------------------------------------
(* The constructor *)

\* Mutant: the flag is set on the way in.
InitGstEarly(p) ==
  /\ ~crashed
  /\ Goes(p, "new", IF gst_inited THEN "create" ELSE "init")
  /\ gst_inited' = TRUE
  /\ UNCHANGED <<gstReady, mActionMutex, bus, loopVars, contextVars, crashed>>

\* init_gst looks at the flag, and calls gst_init if it is not set.
InitGst(p) ==
  /\ ~crashed
  /\ Goes(p, "new", IF gst_inited THEN "create" ELSE "init")
  /\ UNCHANGED <<initVars, mActionMutex, bus, loopVars, contextVars, crashed>>

\* gst_init returns.  (What it does when another constructor is in it, or has been,
\* is GStreamer's affair.)
GstInitReturns(p) ==
  /\ ~crashed
  /\ Goes(p, "init", "flag")
  /\ gstReady' = TRUE
  /\ UNCHANGED <<gst_inited, mActionMutex, bus, loopVars, contextVars, crashed>>

\* The flag is set.
InitGstEnds(p) ==
  /\ ~crashed
  /\ Goes(p, "flag", "create")
  /\ gst_inited' = TRUE
  /\ UNCHANGED <<gstReady, mActionMutex, bus, loopVars, contextVars, crashed>>

\* playbin2, the watch of its bus, mMainLoop and its thread.
CreatePipeline(p) ==
  /\ ~crashed
  /\ Goes(p, "create", "alive")
  /\ thread' = [thread EXCEPT ![p] = "starting"]
  /\ UNCHANGED <<initVars, mActionMutex, bus, running, contextVars, crashed>>

-----------------------------------------------------------------------------
(* Calls and messages *)

\* playbin2 posts a message, in whatever state it is, until it is in NULL.
Post(p) ==
  /\ ~crashed
  /\ pc[p] \in {"alive", "call", "join", "null"}
  /\ Len(bus[p]) < MaxBacklog
  /\ \E m \in News(p) : Put(p, m)
  /\ UNCHANGED <<initVars, pc, mActionMutex, loopVars, contextVars, crashed>>

\* A call such as prepare() has the mutex and waits.
Wait(p) ==
  /\ ~crashed
  /\ mActionMutex[p] = Nobody
  /\ Goes(p, "alive", "call")
  /\ mActionMutex' = [mActionMutex EXCEPT ![p] = Client]
  /\ UNCHANGED <<initVars, bus, loopVars, contextVars, crashed>>

Return(p) ==
  /\ ~crashed
  /\ Goes(p, "call", "alive")
  /\ mActionMutex' = [mActionMutex EXCEPT ![p] = Nobody]
  /\ UNCHANGED <<initVars, bus, loopVars, contextVars, crashed>>

-----------------------------------------------------------------------------
(* The destructor *)

\* Mutant: QUIT is posted for as long as the thread has not ended.
DeleteAgain(p) ==
  /\ ~crashed
  /\ mActionMutex[p] = Nobody
  /\ pc[p] \in {"alive", "join"}
  /\ pc' = [pc EXCEPT ![p] = "join"]
  /\ Put(p, "quit")
  /\ UNCHANGED <<initVars, mActionMutex, loopVars, contextVars, crashed>>

\* Mutant: the mutex is kept over g_thread_join.
DeleteLocked(p) ==
  /\ ~crashed
  /\ mActionMutex[p] = Nobody
  /\ Goes(p, "alive", "join")
  /\ Put(p, "quit")
  /\ mActionMutex' = [mActionMutex EXCEPT ![p] = Client]
  /\ UNCHANGED <<initVars, loopVars, contextVars, crashed>>

\* Up to g_thread_join, for which the mutex is released.
Delete(p) ==
  /\ ~crashed
  /\ mActionMutex[p] = Nobody
  /\ Goes(p, "alive", "join")
  /\ Put(p, "quit")
  /\ UNCHANGED <<initVars, mActionMutex, loopVars, contextVars, crashed>>

\* Mutant: the bus thread is not waited for.
JoinedEarly(p) ==
  /\ ~crashed
  /\ mActionMutex[p] = Nobody
  /\ Goes(p, "join", "null")
  /\ mActionMutex' = [mActionMutex EXCEPT ![p] = Client]
  /\ UNCHANGED <<initVars, bus, loopVars, contextVars, crashed>>

\* g_thread_join returns, and the mutex is taken again.
Joined(p) ==
  /\ ~crashed
  /\ thread[p] = "exited"
  /\ mActionMutex[p] = Nobody
  /\ Goes(p, "join", "null")
  /\ mActionMutex' = [mActionMutex EXCEPT ![p] = Client]
  /\ UNCHANGED <<initVars, bus, loopVars, contextVars, crashed>>

\* playbin2 is in NULL, its bus has been flushed, and all is freed.  The watch
\* is not removed.
Free(p) ==
  /\ ~crashed
  /\ Goes(p, "null", "freed")
  /\ bus' = [bus EXCEPT ![p] = <<>>]
  /\ mActionMutex' = [mActionMutex EXCEPT ![p] = Nobody]
  /\ UNCHANGED <<initVars, loopVars, contextVars, crashed>>

-----------------------------------------------------------------------------
(* g_main_loop_run, in the bus thread of p *)

Runs(p, state) == thread' = [thread EXCEPT ![p] = state]

\* It gets the context if that is free, and waits for it otherwise.
RunLoop(p) ==
  /\ ~crashed
  /\ thread[p] = "starting"
  /\ running' = [running EXCEPT ![p] = TRUE]
  /\ IF owner = Nobody
       THEN Runs(p, "dispatching") /\ owner' = p
       ELSE Runs(p, "waiting") /\ UNCHANGED owner
  /\ UNCHANGED <<initVars, playerVars, pending, callback, crashed>>

\* The thread that had the context has left.
GetContext(p) ==
  /\ ~crashed
  /\ thread[p] = "waiting"
  /\ running[p]
  /\ owner = Nobody
  /\ Runs(p, "dispatching")
  /\ owner' = p
  /\ UNCHANGED <<initVars, playerVars, running, pending, callback, crashed>>

\* The loop has been told to quit.
LeaveLoop(p) ==
  /\ ~crashed
  /\ ~running[p]
  /\ \/ thread[p] = "waiting" /\ UNCHANGED owner
     \/ /\ thread[p] = "dispatching" /\ pending = {} /\ callback = Nobody
        /\ owner' = Nobody
  /\ Runs(p, "exited")
  /\ UNCHANGED <<initVars, playerVars, running, pending, callback, crashed>>

\* Mutant: each loop looks after the bus of its own player.
IterateOwn(p) ==
  /\ ~crashed
  /\ thread[p] = "dispatching"
  /\ running[p]
  /\ pending = {} /\ callback = Nobody
  /\ bus[p] # <<>>
  /\ pending' = {p}
  /\ UNCHANGED <<initVars, playerVars, loopVars, owner, callback, crashed>>

\* g_main_context_iterate finds the buses that have messages.
Iterate(p) ==
  /\ ~crashed
  /\ thread[p] = "dispatching"
  /\ running[p]
  /\ pending = {} /\ callback = Nobody
  /\ pending' = {q \in Players : bus[q] # <<>>}
  /\ pending' # {}
  /\ UNCHANGED <<initVars, playerVars, loopVars, owner, callback, crashed>>

\* It dispatches a watch: one message, unless the bus has been flushed.
Dispatch(p, q) ==
  /\ ~crashed
  /\ thread[p] = "dispatching"
  /\ callback = Nobody
  /\ q \in pending
  /\ pending' = pending \ {q}
  /\ IF bus[q] = <<>>
       THEN UNCHANGED <<bus, callback>>
       ELSE /\ callback' = [player |-> q, message |-> Head(bus[q])]
            /\ bus' = [bus EXCEPT ![q] = Tail(@)]
  /\ UNCHANGED <<initVars, pc, mActionMutex, loopVars, owner, crashed>>

-----------------------------------------------------------------------------
(* bus_callback, for player q, in the bus thread of p *)

\* Mutant: it is the loop of the thread that is told to quit.
QuitsThisLoop(p, q) == p

\* g_main_loop_quit (mMainLoop)
QuitsLoop(p, q) == q

\* Bus thread p has the mutex of the player that its message is for.
Locks(p) ==
  /\ thread[p] = "dispatching"
  /\ callback # Nobody
  /\ pc[callback.player] # "freed"
  /\ mActionMutex[callback.player] = Nobody

\* The message makes handleEos call start().
PlaysAgain(m) == m.message = "eos" /\ m.player \in Looping

\* From LOCK to UNLOCK.
BusCallback(p) ==
  /\ ~crashed
  /\ Locks(p)
  /\ ~PlaysAgain(callback)
  /\ running' = IF callback.message = "quit"
                  THEN [running EXCEPT ![QuitsLoop(p, callback.player)] = FALSE]
                  ELSE running
  /\ callback' = Nobody
  /\ UNCHANGED <<initVars, playerVars, thread, owner, pending, crashed>>

\* handleEos of a player that loops calls start(), which asks for the mutex that
\* bus_callback has: the thread stays there, and keeps the context.
PlayAgain(p) ==
  /\ ~crashed
  /\ Locks(p)
  /\ PlaysAgain(callback)
  /\ mActionMutex' = [mActionMutex EXCEPT ![callback.player] = p]
  /\ UNCHANGED <<initVars, pc, bus, loopVars, contextVars, crashed>>

\* The LOCK of a player that has been freed meanwhile.
BusCallbackCrashes(p) ==
  /\ ~crashed
  /\ thread[p] = "dispatching"
  /\ callback # Nobody
  /\ pc[callback.player] = "freed"
  /\ crashed' = TRUE
  /\ UNCHANGED <<initVars, playerVars, loopVars, contextVars>>

-----------------------------------------------------------------------------
\* Bus thread p is in the start() of a handler.
Restarts(p) == \E q \in Players : mActionMutex[q] = p

\* Nothing is left to run, or no bus thread can run any more.
Terminated ==
  /\ crashed \/ (\A p \in Players : pc[p] = "freed") \/ (\E p \in Players : Restarts(p))
  /\ UNCHANGED vars

ClientStep(p) ==
  \/ InitGst(p) \/ GstInitReturns(p) \/ InitGstEnds(p) \/ CreatePipeline(p)
  \/ Wait(p) \/ Return(p)
  \/ Delete(p) \/ Joined(p) \/ Free(p)

ThreadStep(p) ==
  \/ RunLoop(p) \/ GetContext(p) \/ LeaveLoop(p) \/ Iterate(p)
  \/ \E q \in Players : Dispatch(p, q)
  \/ BusCallback(p) \/ PlayAgain(p) \/ BusCallbackCrashes(p)

Next ==
  \/ \E p \in Players : ClientStep(p) \/ Post(p) \/ ThreadStep(p)
  \/ Terminated

\* Threads run; whoever waits for a mutex that is free again and again gets it.
\* A call that waits for playbin2 returns.  Nobody need construct a player, call
\* it, or delete it.
Fairness ==
  /\ \A p \in Players :
       /\ WF_vars(GstInitReturns(p)) /\ WF_vars(InitGstEnds(p)) /\ WF_vars(CreatePipeline(p))
       /\ WF_vars(Return(p)) /\ SF_vars(Joined(p)) /\ WF_vars(Free(p))
       /\ WF_vars(RunLoop(p)) /\ SF_vars(GetContext(p)) /\ WF_vars(LeaveLoop(p))
       /\ WF_vars(Iterate(p)) /\ WF_vars(\E q \in Players : Dispatch(p, q))
       /\ SF_vars(BusCallback(p) \/ PlayAgain(p)) /\ WF_vars(BusCallbackCrashes(p))

Spec == Init /\ [][Next]_vars
FairSpec == Spec /\ Fairness

-----------------------------------------------------------------------------
(* Properties *)

\* The flag of init_gst is looked at and set without a lock, so that constructors
\* that overlap may each call gst_init.  What it does give: none makes a playbin2
\* before gst_init has returned to somebody, and once one has gone on, none that
\* comes later begins gst_init again.
InitedBeforeUse ==
  \A p \in Players : pc[p] \notin {"new", "init", "flag"} => gst_inited /\ gstReady

\* "make sure gst can be initialized only once": whoever begins gst_init is the
\* first to do so.  Two constructors that overlap both find the flag unset.
InitializedOnce ==
  [][\A p \in Players :
       pc[p] # "init" /\ pc'[p] = "init" =>
         ~gstReady /\ \A q \in Players : pc[q] # "init"]_vars

\* Only one thread has the context, and only it is in a callback; a bus thread
\* is gone only after the QUIT message of its own player.
ContextIsOwned ==
  /\ \A p \in Players : thread[p] = "dispatching" <=> owner = p
  /\ owner = Nobody => pending = {} /\ callback = Nobody
  /\ \A p \in Players : thread[p] = "exited" => pc[p] \in {"join", "null", "freed"}

\* Whoever runs the context, the messages of a player are handled one at a time, in
\* order, and never while a call has its mutex; it is not freed before its QUIT has
\* been handled.
Life(p) ==
  CASE pc[p] \in {"new", "init", "flag", "create"} -> "new"
    [] pc[p] \in {"alive", "call"} -> "open"
    [] pc[p] \in {"join", "null"} -> "closing"
    [] pc[p] = "freed" -> "closed"

\* The message of p that a thread is about to handle.
InHand(p) ==
  IF callback # Nobody /\ callback.player = p /\ mActionMutex[p] \notin Players
    THEN <<callback.message>> ELSE <<>>

\* Who keeps messages of p from being handled.
Held(p) ==
  CASE mActionMutex[p] = Nobody -> "free"
    [] mActionMutex[p] = Client -> "call"
    [] OTHER -> "handler"

Mail == INSTANCE Mailboxes WITH phase <- [p \in Players |-> Life(p)],
                                held <- [p \in Players |-> Held(p)],
                                queue <- bus,
                                inHand <- [p \in Players |-> InHand(p)],
                                broken <- crashed,
                                Last <- "quit"
MailSpec == Mail!Spec

\* Each message of a player that lives is handled, whichever threads come and go,
\* unless some player plays again.
MailServed == Mail!Fairness

\* A destructor whose QUIT message finds its bus thread in g_main_loop_run comes
\* to its end, whichever thread handles the message: the thread leaves without
\* the context, or gives it to another.  Only a player that plays again stops it,
\* its own or any other.
QuitEndsTheThread ==
  \A p \in Players :
    /\ pc[p] = "join"
    /\ thread[p] \in {"waiting", "dispatching"}
    /\ \E i \in DOMAIN bus[p] : bus[p][i] = "quit"
    ~> pc[p] = "freed" \/ crashed \/ \E q \in Players : Restarts(q)

\* Once the main loop of a player has been waited for, and the player freed, no
\* thread is in its bus_callback.
NoCallbackAfterFree ==
  callback # Nobody => pc[callback.player] # "freed"

\* When it is not so, the thread is that of another player: the thread that has
\* been waited for is in nobody's callback.
OnlyOthersAreLate ==
  callback # Nobody /\ pc[callback.player] \in {"null", "freed"} => owner # callback.player

\* The threads of the clients and the bus threads.
ThreadNames == {"client", "bus"} \X Players

HasMutex(x, p) ==
  \/ mActionMutex[p] = Client /\ x = <<"client", p>>
  \/ mActionMutex[p] \in Players /\ x = <<"bus", mActionMutex[p]>>

\* Thread x cannot go on before thread y does: x is in g_thread_join and y in its
\* loop, y has the context, or y has the mutex that x asks for.
WaitsFor(x, y) ==
  \E p \in Players :
    \/ /\ x = <<"client", p>>
       /\ pc[p] = "join"
       /\ IF thread[p] # "exited" THEN y = <<"bus", p>> ELSE HasMutex(y, p)
    \/ /\ x = <<"bus", p>>
       /\ \/ /\ thread[p] = "waiting" /\ running[p] /\ owner # Nobody
             /\ y = <<"bus", owner>>
          \/ /\ thread[p] = "dispatching" /\ callback # Nobody
             /\ HasMutex(y, callback.player)

\* Each of the threads in S waits for one of them.
Circle(S) == S # {} /\ \A x \in S : \E y \in S : WaitsFor(x, y)

\* Joins, context and mutexes of all players together make no deadlock but the one
\* of the thread that plays again, which waits for itself: whoever waits for ever
\* waits for that one.
OnlyRestartsDeadlock ==
  \A S \in SUBSET ThreadNames :
    Circle(S) => \E p \in Players : <<"bus", p>> \in S /\ Restarts(p)

\* The QUIT of p is on the bus or in a hand, or has been handled.
QuitOnItsWay(p) ==
  \/ \E i \in 1..Len(bus[p]) : bus[p][i] = "quit"
  \/ callback # Nobody /\ callback = [player |-> p, message |-> "quit"]
  \/ ~running[p]

\* While the destructor waits for a thread that is in its loop, its QUIT message is
\* neither lost nor spent on the loop of another.
QuitIsKept ==
  [][\A p \in Players :
       /\ pc[p] = "join" /\ thread[p] \in {"waiting", "dispatching"}
       /\ QuitOnItsWay(p)
       => pc'[p] # "join" \/ QuitOnItsWay(p)']_vars
=============================================================================
