----------------------------- MODULE MCWitness ------------------------------
(* The witnesses that the runs of Witness present. *)
EXTENDS WitnessProps

W(field, body, it, ot) ==
  [short |-> FALSE, field |-> field, plen |-> Len(body) - it - ot,
   it |-> it, ot |-> ot, body |-> body]

Short == [W(0, <<>>, 0, 0) EXCEPT !.short = TRUE]

\* No lock, locks of several lengths, with and without the other fields, a unit
\* after the end of the witness, and witnesses that end early.
Singles == {Short, W(0, <<>>, 0, 0), W(0, <<1, 2>>, 1, 1), W(7, <<1, 0, 2>>, 0, 0),
            W(8, <<1, 0, 2, 1, 2, 1>>, 1, 1), W(4, <<2>>, 0, 1),
            [W(6, <<1, 2, 1>>, 0, 0) EXCEPT !.plen = 2],
            [W(6, <<1>>, 0, 0) EXCEPT !.plen = 2],
            [W(6, <<1, 2, 1>>, 0, 0) EXCEPT !.plen = 2, !.ot = 2],
            [W(6, <<>>, 0, 0) EXCEPT !.short = TRUE]}

\* One key and two signatures, two keys and one, no signature yet, a reserved
\* field that is not zero, no lock.
Multisigs == {W(11, <<0, 0, 1, 1, 2, 1, 2>>, 0, 0),
              W(12, <<0, 1, 2, 2, 1, 2, 2, 1>>, 0, 0),
              W(9, <<0, 0, 1, 1, 2>>, 0, 0),
              W(10, <<0, 0, 1, 1, 2, 1, 1, 2>>, 1, 1),
              W(9, <<1, 0, 1, 1, 2>>, 0, 0), W(0, <<2>>, 0, 1), Short}

\* The length of lock is not that of its field.
Malformed == {[W(9, <<0, 1, 0, 2>>, 0, 0) EXCEPT !.plen = 2],
              [W(6, <<1, 2>>, 0, 0) EXCEPT !.plen = 3]}

AllFirsts == Singles \cup Multisigs \cup Malformed

MCOthers == {<<>>, <<<<>>>>, <<<<1, 2>>, <<2>>>>}
=============================================================================
