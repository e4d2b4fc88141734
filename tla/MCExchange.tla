------------------------------ MODULE MCExchange ------------------------------
(* Bytes of three values in buffers of seven: texts of one or two characters, *)
(* two applications, and numbers that begin with a zero byte, as times do.    *)
EXTENDS Exchange

RequestOf(a, name, equipment) ==
    [type |-> 0, application_id |-> a, name |-> name,
     user_equipment_name |-> equipment]

Me == RequestOf(1, <<1>>, <<2>>)
Them == {RequestOf(2, <<2, 2>>, <<>>)}
Host == {<<2>>}
Uninitialized == {0, 7}
TwoPorts == [a \in 1 .. 2 |-> 3 + a]
Name == <<1>>
Queued == {7}
===============================================================================
