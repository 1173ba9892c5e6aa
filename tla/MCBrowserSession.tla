--------------------------- MODULE MCBrowserSession ---------------------------
(***************************************************************************)
(* Worlds for model checking BrowserSession.                               *)
(***************************************************************************)
EXTENDS BrowserSession

World(faults, calls, login) ==
    [env |-> faults, calls |-> calls, login |-> login, most |-> 2]

\* Two tabs sign in at once.
BothSignIn ==
    [World({}, {<<1, "sign">>, <<2, "sign">>, <<2, "me">>}, Tabs) EXCEPT !.most = 3]

MCWorlds ==
    {World({"ends"}, Tabs \X {"me"}, {}),
     World({"network"}, {1} \X {"me", "post"}, {}),
     World({}, {1} \X {"me", "put", "download"}, {}),
     World({"network", "ends"}, {1} \X {"me", "logout"}, {}),
     World({}, {<<1, "me">>, <<2, "me">>, <<2, "logout">>}, {}),
     World({"reload"}, {1} \X {"me", "sign"}, {1}),
     World({"impatient"}, {1} \X {"probe", "sign"}, {1}),
     World({"ends"}, {1} \X {"me", "sign"}, {}),
     World({}, {1} \X {"me", "logout", "sign"}, {1}),
     World({}, {<<1, "sign">>, <<2, "me">>}, {1}),
     BothSignIn}

BlipWorlds == {World({"network"}, {1} \X {"me"}, {})}

BounceWorlds == {World({"ends"}, {1} \X {"me", "sign"}, {})}
================================================================================
