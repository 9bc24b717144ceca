------------------------------ MODULE MCTxSign ------------------------------
(* Small instances of TxSign: lock arguments of two-unit hashes with a third *)
(* unit for the lock period, and menus of cells for each run.                *)
EXTENDS TxSignProps

Own == <<1, 1>>
OwnChange == <<1, 2>>
Alice == <<2, 1>>
Bob == <<2, 2>>
Vault == <<3, 1>>  \* a multisig script

MCChange == {OwnChange}
MCChangeAny == {Own, OwnChange}

C(args, cap) == [NoCell EXCEPT !.lock = "default", !.args = args, !.cap = cap]
Multisig(args, cap) == [C(args, cap) EXCEPT !.lock = "multisig"]
Dao(args, cap, nonzero) ==
  [C(args, cap) EXCEPT !.type = "dao", !.size = 8, !.nonzero = nonzero]

\* Transfers: inputs of the key, in one run or in two or none, of other keys and
\* of a multisig script; outputs to both own addresses, and to one hash under
\* either lock.
TransferIns == {C(Own, 5), C(Alice, 4), C(Bob, 3), Multisig(Vault, 6)}
TransferOuts == {C(Own, 1), C(OwnChange, 1), C(Alice, 2), Multisig(Alice \o <<2>>, 1)}

\* DAO: deposits (zero data) and prepared cells, own and not, and one whose
\* data has the wrong size.
DaoIns3 == {C(Own, 5), Dao(Own, 3, FALSE), Dao(Own, 3, TRUE),
            Dao(Alice, 3, TRUE), [Dao(Own, 3, TRUE) EXCEPT !.size = 7]}
DaoOuts3 == {C(OwnChange, 2), C(Alice, 2), Dao(OwnChange, 3, FALSE),
             Dao(OwnChange, 3, TRUE), Dao(Alice, 3, FALSE)}

\* Contract data: unknown scripts, hash types, type arguments and data, and
\* lock arguments that are too short or too long.
Odd == {[C(Own, 1) EXCEPT !.lock = "other"],
        [C(Own, 1) EXCEPT !.lock_ht = FALSE],
        [C(Own, 1) EXCEPT !.type = "other"],
        [C(Own, 1) EXCEPT !.type = "other", !.targs = TRUE, !.size = 15],
        [C(Own, 1) EXCEPT !.size = 4, !.nonzero = TRUE],
        [Dao(Own, 1, FALSE) EXCEPT !.type_ht = FALSE],
        [Dao(Own, 1, FALSE) EXCEPT !.targs = TRUE],
        [Dao(Own, 1, FALSE) EXCEPT !.size = 7]}
ContractIns == {C(Own, 2)} \cup Odd
ContractOuts == {C(Alice, 1), C(<<>>, 1), C(Own \o <<0>>, 1),
                 C(Own \o <<3, 3>>, 1)} \cup Odd

\* Payments under one multisig hash with two lock periods.
PeriodIns == {C(Own, 5)}
PeriodOuts == {Multisig(Vault \o <<1>>, 1), Multisig(Vault \o <<2>>, 1)}
=============================================================================
