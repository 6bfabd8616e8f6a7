------------------------------ MODULE MCMigration ------------------------------
(***************************************************************************)
(* Two holders, two Safes that fund, and three lists: one to carry out,    *)
(* one whose ownerships are not proven yet, and one whose two rows have    *)
(* the same recipient and amount.                                          *)
(***************************************************************************)
EXTENDS Migration

CONSTANTS vault, timelock, h1, h2, safe, fund, good, open, same

MCRow(h, r, s, p) == [holder |-> h, recipient |-> r, amount |-> 1, source |-> s, proven |-> p]

MCCsv == [m \in Manifests |->
  CASE m = good -> <<<<MCRow(h1, h1, safe, TRUE), MCRow(h2, fund, fund, TRUE)>>>>
    [] m = open -> <<<<MCRow(h1, h1, fund, FALSE)>>, <<MCRow(h2, h2, fund, FALSE)>>>>
    [] m = same -> <<<<MCRow(h1, h1, safe, TRUE), MCRow(h2, h1, fund, TRUE)>>>>]

MCActions == UNION {{ActionId(m, row) : row \in RowsOf[m]} : m \in Manifests}
MCBatches == UNION {{Entitlements(m, Csv[m][i]) : i \in DOMAIN Csv[m]} : m \in Manifests}
MCSignable == {[holder |-> h2, recipient |-> fund, amount |-> 1, deadline |-> 0]}
MCInitialV1 == [a \in Accounts |-> CASE a = h1 -> 1 [] a = h2 -> 1 [] OTHER -> 0]
MCInitialV2 == [a \in Accounts |->
  CASE a = safe -> 2 [] a = fund -> 4 [] OTHER -> 0]
MCCap == [s \in Safes |-> 4]
=============================================================================
