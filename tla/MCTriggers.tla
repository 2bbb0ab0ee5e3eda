----------------------------- MODULE MCTriggers ------------------------------
(* Contacts with and without a normalized number, one of them twice;       *)
(* settings with the list in two pieces around a toggle in two bytes and   *)
(* another toggle at the end; settings with nothing but a list.            *)
EXTENDS Triggers

R(norm, e164) == [norm |-> norm, e164 |-> e164]
MCBook == {{R(None, 2)}, {R(3, 2), R(None, 1), R(1, None), R(None, None)}}
MCInterval == {15}
Num(n) == Bytes(Numbers, <<n>>)
MCFirstFile == {
    build(<<Num(3)>>) \o <<8, 128, 0>> \o build(<<Num(1), Varint(7, 0)>>),
    build(<<Num(2)>>)}
=============================================================================
