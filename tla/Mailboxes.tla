------------------------------ MODULE Mailboxes ------------------------------
(***************************************************************************)
(* What the bus of each player promises, whatever other players do: the    *)
(* messages of a player are handled one at a time, in the order they were  *)
(* posted, and never while a call has the player's mutex.  As long as the  *)
(* player is open each of them is handled; a player that closes posts a    *)
(* last message, and is not closed before that one has been handled.       *)
(*                                                                         *)
(* Who handles them is left open, with one consequence: a message may be   *)
(* in the hand of a thread that knows nothing of the player's end.  If it  *)
(* still is when the player has closed, everything may break.  And a       *)
(* handler may go on to make a call, whose LOCK is that of the handler:    *)
(* its player is not served any more, nor can it close.                    *)
(***************************************************************************)
EXTENDS Integers, Sequences

CONSTANTS Players,
          Last     \* the message that closes a player

VARIABLES phase,   \* of each player: new, open, closing or closed
          held,    \* of each player: its mutex is free, or a call has it, or a handler
          queue,   \* of each player: the messages nobody has taken yet
          inHand,  \* of each player: the message, if any, about to be handled
          broken

mailVars == <<phase, held, queue, inHand, broken>>

Init ==
  /\ phase \in [Players -> {"new", "open"}]
  /\ held = [p \in Players |-> "free"]
  /\ queue = [p \in Players |-> <<>>]
  /\ inHand = [p \in Players |-> <<>>]
  /\ broken = FALSE

Turn(p, from, to) == phase[p] = from /\ phase' = [phase EXCEPT ![p] = to]

Open(p) ==
  /\ ~broken
  /\ Turn(p, "new", "open")
  /\ UNCHANGED <<held, queue, inHand, broken>>

\* More messages behind those of before, none of them the last.
Longer(before, after) ==
  /\ Len(before) <= Len(after)
  /\ \A i \in 1..Len(after) :
       IF i <= Len(before) THEN after[i] = before[i] ELSE after[i] # Last

\* The player posts what there is to say; a call takes the mutex for as long as
\* it waits, or gives it back.
Work(p) ==
  /\ ~broken
  /\ phase[p] \in {"open", "closing"}
  /\ Longer(queue[p], queue'[p])
  /\ queue' = [queue EXCEPT ![p] = queue'[p]]
  /\ \/ UNCHANGED held
     \/ /\ held[p] # "handler"
        /\ \E h \in {"free", "call"} : held' = [held EXCEPT ![p] = h]
  /\ UNCHANGED <<phase, inHand, broken>>

\* Whoever posts this one asks for the end of the service.
PostLast(p) ==
  /\ ~broken
  /\ held[p] = "free"
  /\ Turn(p, "open", "closing")
  /\ queue' = [queue EXCEPT ![p] = Append(@, Last)]
  /\ UNCHANGED <<held, inHand, broken>>

Take(p) ==
  /\ ~broken
  /\ held[p] # "handler"
  /\ inHand[p] = <<>>
  /\ queue[p] # <<>>
  /\ inHand' = [inHand EXCEPT ![p] = <<Head(queue[p])>>]
  /\ queue' = [queue EXCEPT ![p] = Tail(@)]
  /\ UNCHANGED <<phase, held, broken>>

\* The handler gives the mutex back, or goes on to make a call.
Handles(p) == \E h \in {"free", "handler"} : held' = [held EXCEPT ![p] = h]

Handle(p) ==
  /\ ~broken
  /\ phase[p] # "closed"
  /\ held[p] = "free"
  /\ inHand[p] # <<>>
  /\ inHand' = [inHand EXCEPT ![p] = <<>>]
  /\ Handles(p)
  /\ UNCHANGED <<phase, queue, broken>>

\* Taken and handled in one.
HandleAtOnce(p) ==
  /\ ~broken
  /\ phase[p] # "closed"
  /\ held[p] = "free"
  /\ inHand[p] = <<>>
  /\ queue[p] # <<>>
  /\ queue' = [queue EXCEPT ![p] = Tail(@)]
  /\ Handles(p)
  /\ UNCHANGED <<phase, inHand, broken>>

\* The last message has been handled, and so have all before it.  Those behind
\* it are lost.
Close(p) ==
  /\ ~broken
  /\ Turn(p, "closing", "closed")
  /\ \A i \in 1..Len(queue[p]) : queue[p][i] # Last
  /\ inHand[p] # <<Last>>
  /\ held[p] # "handler"
  /\ queue' = [queue EXCEPT ![p] = <<>>]
  /\ held' = [held EXCEPT ![p] = "free"]
  /\ UNCHANGED <<inHand, broken>>

Break(p) ==
  /\ ~broken
  /\ phase[p] = "closed"
  /\ inHand[p] # <<>>
  /\ broken' = TRUE
  /\ UNCHANGED <<phase, held, queue, inHand>>

Next ==
  \E p \in Players :
    \/ Open(p)
    \/ Work(p)
    \/ PostLast(p)
    \/ Take(p)
    \/ Handle(p)
    \/ HandleAtOnce(p)
    \/ Close(p)
    \/ Break(p)

Spec == Init /\ [][Next]_mailVars

\* An open player is served, as long as no handler, of whichever player, makes a
\* call: the players may share the thread that serves them.
Serve(p) ==
  /\ phase[p] = "open"
  /\ \A q \in Players : held[q] # "handler"
  /\ Take(p) \/ Handle(p) \/ HandleAtOnce(p)

Fairness == \A p \in Players : WF_mailVars(Serve(p))

FairSpec == Spec /\ Fairness
=============================================================================
