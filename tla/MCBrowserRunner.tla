-------------------------- MODULE MCBrowserRunner --------------------------
(***************************************************************************)
(* Small instances of BrowserRunner for TLC.                                *)
(***************************************************************************)
EXTENDS BrowserRunner

CONSTANTS j1, j2, p1, p2, context, u1, u2

\* Two gifts for one channel, the second under its new name, and two shop
\* accounts that were configured with one context.
Renamed == [j \in Jobs |-> IF j = j1 THEN u1 ELSE u2]
OneContext == [j \in Jobs |-> context]
Mixed == [j \in Jobs |-> IF j = j1 THEN "twitch" ELSE "kick"]
AnyCharge == [j \in Jobs |-> Jobs]
=============================================================================
