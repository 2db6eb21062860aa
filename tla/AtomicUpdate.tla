---------------------------- MODULE AtomicUpdate ----------------------------
(***************************************************************************)
(* What an update of the Base image promises (docs/update): a new image is *)
(* first tried, and becomes the permanent one only after it passed its     *)
(* tests; otherwise the Base goes back to the image it had before.         *)
(***************************************************************************)
EXTENDS Integers

CONSTANT Image      \* images; image 0 is the factory image
NoImage == -1

VARIABLES
    committed,      \* the image the Base keeps
    tried,          \* the image on trial, or NoImage
    tested          \* images that passed the tests

avars == <<committed, tried, tested>>

Init == committed = 0 /\ tried = NoImage /\ tested = {0}

\* A new image is booted for the first time.
Try(i) ==
    /\ tried = NoImage /\ i \notin tested
    /\ tried' = i
    /\ UNCHANGED <<committed, tested>>

\* The image that is running passes the tests.
Pass ==
    /\ tested' = tested \cup {IF tried = NoImage THEN committed ELSE tried}
    /\ UNCHANGED <<committed, tried>>

Accept ==
    /\ tried \in tested
    /\ committed' = tried /\ tried' = NoImage
    /\ UNCHANGED tested

Reject ==
    /\ tried # NoImage /\ tried' = NoImage
    /\ UNCHANGED <<committed, tested>>

Next == (\E i \in Image : Try(i)) \/ Pass \/ Accept \/ Reject

Spec == Init /\ [][Next]_avars
=============================================================================
