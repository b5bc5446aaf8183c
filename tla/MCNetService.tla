---------------------------- MODULE MCNetService ----------------------------
(* Values of the constants of NetService for TLC. *)
EXTENDS NetService

NoScript == <<>>
OneRequest == <<"join">>
TwoRequests == <<"scene", "bullet">>

Enter == [what |-> "enter", ids |-> <<>>, ans |-> 0]
Cmds(ids) == [what |-> "cmds", ids |-> ids, ans |-> 0]

(* A resent run of commands, commands out of order, and an empty answer. *)
ManyDatagrams == {Enter, Cmds(<<>>)} \cup
  {Cmds(s) : s \in {<<2>>, <<3>>, <<4>>, <<2, 3>>, <<3, 4>>, <<4, 2>>, <<2, 3, 4>>}}
OneDatagram == {Enter, Cmds(<<2>>)}
FewDatagrams == {Enter, Cmds(<<2>>), Cmds(<<3>>)}
=============================================================================
