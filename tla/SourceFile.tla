----------------------------- MODULE SourceFile -----------------------------
(***************************************************************************)
(* What a random access source promises to those who pull from it: a pull  *)
(* is answered with the bytes it asked for, as many as the file has, or    *)
(* with the end of the stream if it begins behind the file.                *)
(*                                                                         *)
(* One that loses an answer is astray, and from then on skips bytes: it    *)
(* answers with later ones of the file.  It finds its place again at the   *)
(* first pull that is not where the answer before ended.                   *)
(***************************************************************************)
EXTENDS Integers

CONSTANTS Lengths, Sizes,  \* of files, and of pulls
          NoPull, Eos, Nowhere

VARIABLES length,  \* of the file that is open
          pull,    \* the pull that is not answered, or NoPull
          answer,  \* the latest answer
          place,   \* where the next pull is, if it is not elsewhere
          astray

fileVars == <<length, pull, answer, place, astray>>

Shorter(m, n) == IF m < n THEN m ELSE n

Init ==
  /\ length = 0
  /\ pull = NoPull
  /\ answer = Eos
  /\ place = Nowhere
  /\ astray = FALSE

\* Nobody pulls, and nobody knows where the source is.
Idle ==
  /\ pull' = NoPull
  /\ place' = Nowhere
  /\ astray' = FALSE

\* Another file, or none, takes the place of the one that is open.
Open(n) ==
  /\ length' = n
  /\ Idle
  /\ UNCHANGED answer

Pull ==
  /\ pull = NoPull
  /\ pull' # NoPull
  /\ pull'.at \in Nat /\ pull'.size \in Sizes
  /\ place' = pull'.at
  /\ astray' = (astray /\ pull'.at = place)
  /\ UNCHANGED <<length, answer>>

\* The answer to the pull.
Exact ==
  IF pull.at > length
    THEN Eos
    ELSE [at |-> pull.at, size |-> Shorter(pull.size, length - pull.at)]

\* An answer from further on in the file.
Skips(a) == a = Eos \/ (a.at > pull.at /\ a.at + a.size <= length)

Answer ==
  /\ pull # NoPull
  /\ IF astray THEN Skips(answer') ELSE answer' = Exact
  /\ place' = IF answer' = Eos THEN place ELSE pull.at + answer'.size
  /\ pull' = NoPull
  /\ UNCHANGED <<length, astray>>

\* The answer is lost in a flush, which takes the pull back.
Lose ==
  /\ pull # NoPull
  /\ pull' = NoPull
  /\ astray' \in BOOLEAN
  /\ astray => astray'
  /\ UNCHANGED <<length, answer, place>>

Flush ==
  /\ Idle
  /\ UNCHANGED <<length, answer>>

Next ==
  \/ \E n \in Lengths \cup {0} : Open(n)
  \/ Pull
  \/ Answer
  \/ Lose
  \/ Flush

Spec == Init /\ [][Next]_fileVars
=============================================================================
