------------------------------ MODULE MCMolecule ------------------------------
(* Small transactions for MoleculeProps. *)
EXTENDS MoleculeProps

\* A checksum in place of blake2b, different for all that is hashed here.
MCblake2b(s, i) ==
  LET sum[k \in 0 .. Len(s)] ==
        IF k = 0 THEN i ELSE (sum[k - 1] * (i + 2) + s[k] + i) % 1009
  IN sum[Len(s)] % BASE

\* The types and tables reached from the outermost ones.
UsedBy(u) ==
  {<<TransactionTypes[u[1]].fields[k],
     IF k \in DOMAIN SignCallbacks[u[2]].sub THEN SignCallbacks[u[2]].sub[k] ELSE "NULL">> :
   k \in DOMAIN TransactionTypes[u[1]].fields}
Wider(S) == {<<u[1], u[2]>> : u \in S \cup UNION {UsedBy(v) : v \in S}}
Wider4(S) == Wider(Wider(Wider(Wider(S))))
AllUses == Wider4(Wider4(Wider4({<<"AnnotatedTransaction", "transaction">>})))

H(n) == [i \in 1 .. HASH |-> n + i]
W(n) == [i \in 1 .. WORD |-> n + i]

Point(n, index) == <<H(n), Pack(index)>>
ScriptOf(n, args) == <<H(n), <<1>>, args>>
Cell(n, args, type) == <<W(n), ScriptOf(n, args), type>>
Dep(n) == <<Point(n, 1), <<0>>>>

Source(cells, data) ==
  <<Pack(0), <<>>, <<>>, <<<<W(0), Point(3, 0)>>>>, cells, data>>
Input(n, index, source) == <<<<W(n), Point(n, index)>>, source>>

Tx(path, change, count, deps, headers, inputs, outputs, data, witnesses) ==
  <<path, change, Pack(count), <<Pack(0), deps, headers, inputs, outputs, data>>, witnesses>>

One == Source(<<Cell(1, <<7, 8>>, <<>>)>>, <<<<>>>>)
Two == Source(<<Cell(1, <<7>>, <<>>), Cell(2, <<9, 9>>, <<ScriptOf(5, <<4>>)>>)>>,
              <<<<>>, <<1, 2>>>>)
Path == <<Pack(44), Pack(3)>>

Plain == Tx(Path, <<>>, 1, <<>>, <<>>, <<Input(4, 0, One)>>,
            <<Cell(6, <<7>>, <<>>)>>, <<<<>>>>, <<<<>>>>)
\* The second output of a source, two inputs, dependencies, data and witnesses.
Rich == Tx(Path, <<Pack(1)>>, 2, <<Dep(3)>>, <<H(7), H(8)>>,
           <<Input(4, 1, Two), Input(9, 0, One)>>,
           <<Cell(6, <<>>, <<>>), Cell(2, <<5>>, <<ScriptOf(1, <<>>)>>)>>,
           <<<<3>>, <<>>>>, <<<<2, 2>>, <<>>>>)
\* Two inputs that are announced as one, and a path that is too long.
Miscounted(n) == Tx(Path, <<>>, n, <<>>, <<>>, <<Input(4, 0, One), Input(9, 0, One)>>,
                    <<>>, <<>>, <<>>)
LongPath == Tx(<<Pack(1), Pack(2), Pack(3), Pack(4)>>, <<>>, 1, <<>>, <<>>,
               <<Input(4, 0, One)>>, <<>>, <<>>, <<>>)

\* Rejected at its end.
Unsafe == Tx(<<Pack(3)>>, <<>>, 1, <<>>, <<>>, <<Input(2, 0, One)>>, <<>>, <<>>, <<>>)

AllTxs == {Plain, Rich, Unsafe, Miscounted(1), LongPath}

\* Transmissions of Plain with one unit changed: in the number of inputs, in the
\* index of the output spent, and in every twelfth place.
Damage(k) == [Encoded[Plain] EXCEPT ![k] = (@ + 1) % BASE]
Damaged == {Damage(k) : k \in {21, 59} \cup {n \in 1 .. Len(Encoded[Plain]) : n % 12 = 0}}

AllWires == {Encoded[tx] : tx \in AllTxs} \cup Damaged

\* The values of the constants, each the name of a definition TLC evaluates once.
MCTypes == TransactionTypes
MCCallbacks == SignCallbacks
MCInner == InnerTables
MCUses == AllUses
MCTxs == AllTxs
MCWires == AllWires
MCRejected == {Encoded[Unsafe]}
==============================================================================
