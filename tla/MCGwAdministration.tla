------------------------- MODULE MCGwAdministration -------------------------
(* Requests and values for the runs of GwAdministration.  Names and values *)
(* are short; the buffers are just long enough for them.                   *)
EXTENDS GwAdministration

Use == <<"use">>
Pass == <<"pass">>
Name == <<"name">>
Baud == <<"baud">>
Hash == <<"_hash">>

MCItems == {Use, Pass, Name, Baud}
MCSecrets == {Pass}
MCDefault == Use :> <<"true">> @@ Pass :> <<"p">> @@ Name :> <<"d">> @@ Baud :> <<"9">>
MCFixed == Baud :> <<"4">>
MCTrue == <<"true">>
MCEarlier == {Use :> <<"false">>}

Pair(n, v) == [name |-> n, value |-> v]
HashPair == Pair(Hash, <<"H">>)
MCRequests ==
  {<<HashPair, Pair(Pass, <<"q", "&">>)>>, <<Pair(Pass, <<"z">>)>>,
   <<HashPair, Pair(<<"other">>, <<"z">>), Pair(Pass, Empty)>>}
MCPasswords == {<<"p">>, <<"q", "&">>}

(* A user who changes the name, and changes it back. *)
UserRequests == {<<HashPair, Pair(Name, <<"x", "&">>), Pair(Use, <<"true">>)>>,
                 <<HashPair, Pair(Name, <<"d">>), Pair(Use, <<"true">>)>>}
=============================================================================
