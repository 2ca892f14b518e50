----------------------------- MODULE LatestAnswer -----------------------------
(***************************************************************************)
(* What a cancelable lookup promises its caller.  The caller asks one      *)
(* question at a time; asking again abandons the question before.  While a *)
(* question is open the old answer may still be visible, and the answer    *)
(* that replaces it answers the question asked last, never one abandoned.  *)
(*                                                                         *)
(* CancelablePromise around Destination.get (module Payment) implements    *)
(* this specification.                                                     *)
(***************************************************************************)

CONSTANTS
  Question,     \* what may be asked
  Answer,       \* what may be answered, failure included
  NoQuestion,   \* nothing is asked
  NoAnswer,     \* the answer to nothing
  Answers       \* [Question -> SUBSET Answer], the right answers to a question

VARIABLES
  asked,        \* the question asked last
  open,         \* TRUE while it has no answer
  answer        \* the answer the caller sees

vars == <<asked, open, answer>>

Init == asked = NoQuestion /\ open = FALSE /\ answer = NoAnswer

Ask(q) ==
  /\ asked' = q
  /\ open' = TRUE
  /\ UNCHANGED answer

(* Asking for nothing is answered at once. *)
Withdraw ==
  /\ asked' = NoQuestion
  /\ open' = FALSE
  /\ answer' = NoAnswer

Reply(a) ==
  /\ open
  /\ a \in Answers[asked]
  /\ open' = FALSE
  /\ answer' = a
  /\ UNCHANGED asked

Next ==
  \/ \E q \in Question : Ask(q)
  \/ Withdraw
  \/ \E a \in Answer : Reply(a)

Spec == Init /\ [][Next]_vars
=============================================================================
