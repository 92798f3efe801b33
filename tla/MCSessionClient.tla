--------------------------- MODULE MCSessionClient ---------------------------
(* Instances of SessionClient for TLC: what the user does, one thing at a time, *)
(* next to what the app does on its own.                                        *)
EXTENDS SessionClient

CONSTANTS user1, app1 \* model values

Uses(byUser, byApp) == [c \in {user1, app1} |-> IF c = user1 THEN byUser ELSE byApp]
AllKinds  == {Uses({"login", "relogin", "swap", "trust", "signout"}, {"request", "resume", "sync"})}
FewKinds  == {Uses({"relogin", "swap"}, {"request"}), Uses({"relogin"}, {"request", "sync", "signout"}),
              Uses({}, {"relogin", "request", "trust"})}
SwapKinds == {Uses({"login", "swap"}, {"request"})}
====
