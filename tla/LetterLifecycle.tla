-------------------------- MODULE LetterLifecycle --------------------------
(***************************************************************************)
(* What the input method promises about one typed letter: it is on its way *)
(* ("pending") until it is in exactly one document or dropped, and both    *)
(* are final.  Implemented by ImeSession.                                  *)
(***************************************************************************)
CONSTANTS Letters, Clients

VARIABLE status     \* of each letter; a client once its document has the letter

Init == status = [l \in Letters |-> "untyped"]

\* The application may get a key at once, without the input method.
Moves == ({"untyped"} \X ({"pending"} \cup Clients)) \cup
         ({"pending"} \X ({"dropped"} \cup Clients))

\* One step may commit or drop a whole composition.
Next == /\ status' \in [Letters -> {"untyped", "pending", "dropped"} \cup Clients]
        /\ \A l \in Letters :
              status'[l] # status[l] => <<status[l], status'[l]>> \in Moves

Spec == Init /\ [][Next]_status

=============================================================================
