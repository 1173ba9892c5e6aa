---------------------------- MODULE MCRefreshTokens ----------------------------
(* Instances of RefreshTokens for TLC: two tabs of one browser, and two browsers. *)
EXTENDS RefreshTokens

CONSTANTS b1, b2, p1, p2

OneBrowser == [p \in Tabs |-> b1]
TwoBrowsers == [p \in Tabs |-> IF p = p1 THEN b1 ELSE b2]

World(e, j, n, time) == [env |-> e, jar |-> j, tokens |-> n, until |-> time]
MCWorlds == {World({"lost", "password"}, TwoBrowsers, 4, 2),
             World({"commits", "lost", "password"}, TwoBrowsers, 4, 2),
             World({"commits", "late", "password"}, OneBrowser, 5, 0),
             World({"commits", "logout", "overlap"}, OneBrowser, 4, 2)}
MCDeployed == {World({}, OneBrowser, 3, 2)}

================================================================================
