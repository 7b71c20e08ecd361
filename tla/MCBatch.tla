------------------------------ MODULE MCBatch ------------------------------
(* A small plan for Batch: two trials of an arm with a ceiling on its cost *)
(* and on its time, and one of a free arm that needs the first of them.    *)
EXTENDS Batch

CONSTANTS Paid, Free

MCArms == {Paid, Free}

Priced == [arm |-> Paid, reserve |-> [cost |-> 3, wall |-> 1],
           evaluated |-> FALSE, needs |-> None]

MCTrial == <<[Priced EXCEPT !.evaluated = TRUE], Priced,
             [arm |-> Free, reserve |-> [cost |-> None, wall |-> None],
              evaluated |-> FALSE, needs |-> 1]>>

\* Both reservations together exceed either ceiling.
MCCeiling == [a \in MCArms |-> IF a = Paid THEN [cost |-> 3, wall |-> 1]
                               ELSE [cost |-> None, wall |-> None]]
=============================================================================
