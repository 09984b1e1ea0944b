----------------------------- MODULE MCSessions -----------------------------
(***************************************************************************)
(* One behaviour is one program: Python sessions on a path and a reader of *)
(* it, or one of the three programs of FileIo.                             *)
(***************************************************************************)
EXTENDS Sessions, FileIo

MCArrays == {[dtype |-> "int32", shape |-> <<2, 1>>, elems |-> <<1, 2>>, chunks |-> "none"],
             [dtype |-> "float64", shape |-> <<>>, elems |-> <<5>>, chunks |-> "none"],
             [dtype |-> "int16", shape |-> <<1>>, elems |-> <<6>>, chunks |-> "none"],
             [dtype |-> "uint8", shape |-> <<1>>, elems |-> <<7>>, chunks |-> "zero"]}

MCAttrs == {[kind |-> "bool", of |-> <<1>>], [kind |-> "ints", of |-> <<1, 2>>]}

MCImages == {<<1, 2, 3>>, <<4, 5>>}

MCFixed == <<11, 12, 13, 14, 15>>

SessionsIdle ==
    /\ session = [w \in Writers |-> Fresh] /\ reader = None
    /\ journal = [w \in Writers |-> <<>>]
    /\ current = [of |-> None, whole |-> FALSE]

MCInit ==
    \/ Init /\ IoIdle
    \/ IoInit /\ SessionsIdle

MCNext ==
    \/ IoIdle /\ SessionNext /\ UNCHANGED ioVars
    \/ ~IoIdle /\ IoNext /\ UNCHANGED sessionVars

MCSpec == MCInit /\ [][MCNext]_<<storageVars, sessionVars, ioVars>>
=============================================================================
