------------------------------ MODULE MCAlerts ------------------------------
EXTENDS Alerts

CONSTANTS a1, a2, a3, a4, c1, c2

MCSeverity == (a1 :> "warning") @@ (a2 :> "error") @@ (a3 :> "info")
  @@ (a4 :> "critical")
MCAbout == (a1 :> "any") @@ (a2 :> "robot1") @@ (a3 :> "robot2")
  @@ (a4 :> "any")
MCWatching == (c1 :> "robot1") @@ (c2 :> "any")

=============================================================================
