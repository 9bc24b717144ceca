------------------------------ MODULE Approval ------------------------------
(***************************************************************************)
(* What the application promises its user: something leaves the device     *)
(* under a key only as the answer to a prompt that showed it, once per     *)
(* approval.  "asked" is what the prompt on the screen is about, "given"   *)
(* what the last request released.  The promise has one exception, which   *)
(* is the host's to invoke and the user's not to see: a request whose      *)
(* instruction has no handler ("stray") may release anything.  What it     *)
(* may not do is answer, replace or forge a prompt.                        *)
(***************************************************************************)
CONSTANTS Nothing

VARIABLES asked, given, stray

Init == asked = Nothing /\ given = Nothing /\ stray = FALSE

\* The host's request is put to the user.
Ask == /\ asked = Nothing /\ asked' # Nothing /\ given' = Nothing
       /\ stray' = FALSE

\* The user approves: exactly what was asked is given.
Approve == /\ asked # Nothing /\ asked' = Nothing /\ given' = asked
           /\ ~stray /\ stray' = stray

\* The user refuses, or the prompt goes away without an answer.
Dismiss == /\ asked # Nothing /\ asked' = Nothing /\ given' = given
           /\ ~stray /\ stray' = stray

\* A request that has a handler is answered without a prompt: nothing is given.
Serve == /\ asked = Nothing /\ asked' = asked /\ given' = Nothing
         /\ stray' = FALSE

\* A request without a handler: only the screen is sure to stay as it is.
Stray == asked = Nothing /\ asked' = asked /\ stray' = TRUE

Next == Ask \/ Approve \/ Dismiss \/ Serve \/ Stray

Spec == Init /\ [][Next]_<<asked, given, stray>>
=============================================================================
