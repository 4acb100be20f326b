--------------------------- MODULE MCPythonClient ---------------------------
(* An instance of PythonClient: two users who exist and one who may        *)
(* register.  The name of user 3 begins with that of user 2 and a comma;   *)
(* a name in capitals, a number and one outside int may be typed too.      *)
EXTENDS PythonClient

MCUsers == {1, 2, 3}
MCTexts == {"ann", "bob", "bob,jr", "BOB", "2", "99999999999"}
MCNameOf == <<"ann", "bob", "bob,jr">>
MCListedAs == <<"ann", "bob", "bob">>
MCNumber == [t \in MCTexts |-> CASE t = "2" -> 2 [] t = "99999999999" -> TooBig
                                 [] OTHER -> NoUser]
MCFoundBy == [t \in MCTexts |-> CASE t = "ann" -> 1 [] t \in {"bob", "BOB"} -> 2
                                  [] t = "bob,jr" -> 3 [] OTHER -> NoUser]
=============================================================================
